---- MODULE Spec2Model ----
(***************************************************************************)
(* Classification-and-alignment engine of the songbook parser.             *)
(*                                                                         *)
(* Part 1: the verse loop of                                               *)
(*   ImprovedUniversalParser._parse_verses_with_span_positioning           *)
(* Part 2: the Y-tolerance grouping of ImprovedPDFExtractor                *)
(*                                                                         *)
(* Text is a sequence of one-character strings, so that strip, startswith, *)
(* substring search and replace are computed, not assumed.                 *)
(***************************************************************************)
EXTENDS Integers, Sequences, FiniteSets, TLC

(***************************************************************************)
(* Bounds                                                                  *)
(***************************************************************************)
MaxLines == 4

(***************************************************************************)
(* String helpers (Python str semantics on sequences of characters)        *)
(***************************************************************************)
RECURSIVE LStrip(_)
LStrip(s) ==
    IF s = <<>> THEN s
    ELSE IF Head(s) = " " THEN LStrip(Tail(s)) ELSE s

RECURSIVE RStrip(_)
RStrip(s) ==
    IF s = <<>> THEN s
    ELSE IF s[Len(s)] = " " THEN RStrip(SubSeq(s, 1, Len(s) - 1)) ELSE s

Strip(s) == RStrip(LStrip(s))

StartsWith(s, p) == Len(p) <= Len(s) /\ SubSeq(s, 1, Len(p)) = p

EndsWith(s, p) == Len(p) <= Len(s) /\ SubSeq(s, Len(s) - Len(p) + 1, Len(s)) = p

Contains(s, p) == \E k \in 1..(Len(s) - Len(p) + 1) : SubSeq(s, k, k + Len(p) - 1) = p

\* str.replace(p, ''): leftmost, non-overlapping occurrences removed
RECURSIVE RemoveAll(_, _)
RemoveAll(s, p) ==
    IF s = <<>> THEN s
    ELSE IF StartsWith(s, p) THEN RemoveAll(SubSeq(s, Len(p) + 1, Len(s)), p)
    ELSE <<Head(s)>> \o RemoveAll(Tail(s), p)

MinOf(S) == CHOOSE m \in S : \A q \in S : m <= q

MaxOf(S) == CHOOSE m \in S : \A q \in S : q <= m

\* s[n:]
DropFirst(s, n) == IF n >= Len(s) THEN <<>> ELSE SubSeq(s, n + 1, Len(s))

(***************************************************************************)
(* Language profile (Croatian)                                             *)
(***************************************************************************)
role_markers ==
    << <<"K", ".", "+", "Z", ".">>, <<"K", ".", "+", "P", ".">>,
       <<"K", ".">>, <<"Z", ".">>, <<"P", ".">>, <<"D", ".">> >>

RoleSet == { role_markers[k] : k \in 1..Len(role_markers) }

\* for role in sorted(role_markers, key=len, reverse=True):
\*     if line.strip().startswith(role): return role
\* Two markers of equal length cannot both be a prefix of one text, so the
\* first hit of the length-descending scan is the longest matching marker.
ExtractRoleMarker(line) ==
    LET hits == { r \in RoleSet : StartsWith(Strip(line), r) }
    IN  IF hits = {} THEN <<>>
        ELSE CHOOSE r \in hits : \A q \in hits : Len(q) <= Len(r)

IsInlineComment(text) == Contains(Strip(text), <<"C", ":">>)

IsAsteriskMarker(text) == Strip(text) = <<"*">> \/ Strip(text) = <<"*", "*">>

CommentOpen == <<"{", "c", "o", "m", "m", "e", "n", "t", ":", " ">>

FormatInlineComment(text) ==
    LET t == Strip(text)
        body ==
            IF StartsWith(t, <<"(">>) /\ EndsWith(t, <<")">>)
            THEN LET inner0 == Strip(SubSeq(t, 2, Len(t) - 1))
                     inner  == IF StartsWith(inner0, <<"C", ":">>)
                               THEN Strip(DropFirst(inner0, 2)) ELSE inner0
                 IN  <<"(">> \o inner \o <<")">>
            ELSE IF StartsWith(t, <<"C", ":">>) THEN Strip(DropFirst(t, 2))
            ELSE t
    IN  CommentOpen \o body \o <<"}">>

\* the extractor's 'text_content' of a text line
TextContent(line_text) ==
    LET has_role_marker == \E r \in RoleSet : Contains(line_text, r)
        role == ExtractRoleMarker(line_text)
        text_after_role == Strip(DropFirst(line_text, Len(role)))
    IN  IF has_role_marker /\ role # <<>> /\ text_after_role # <<>>
        THEN text_after_role
        ELSE Strip(line_text)

\* the overrides a document can have: none, or the Croatian litany override
\* (HR002LitanijeCustomization), which keeps the text of the PDF unchanged
Customizations == {"none", "hr002"}

\* HR002LitanijeCustomization.customize_verse_text
HR002CustomizeVerseText(text) == text

\* default cleaning of a continuation line (no file customization)
CleanText(text) ==
    LET c == Strip(text)
    IN  IF StartsWith(c, <<"\"", "\"">>)
        THEN Strip(RemoveAll(Strip(RemoveAll(c, <<"\"", "\"">>)), <<"\"">>))
        ELSE c


(***************************************************************************)
(* Verse loop: state                                                       *)
(***************************************************************************)
VARIABLES
    text_lines,            \* span_data['text_lines'] as handed to the parser
    customization,         \* the file-keyed override of the document, or "none"
    text_lines_sorted,     \* the list the loop walks
    i,                     \* loop index (1-based)
    verses,                \* emitted verses
    current_verse_lines,
    current_role,
    processed_indices,
    pc,                    \* "start" | "loop" | "done"
    current_marker,        \* history: index of the marker line of the open verse
    role_transitions,      \* history: role-marker lines handled
    comment_emissions      \* history: comment verses emitted

verseVars == << text_lines, customization, text_lines_sorted, i, verses, current_verse_lines,
                current_role, processed_indices, pc, current_marker,
                role_transitions, comment_emissions >>

\* Y-tolerance grouping: state
VARIABLES
    g_chord_lines,         \* the chord lines of extract(), before and after combining
    g_text_lines,          \* the text lines of extract() (Spanish profile)
    g_chord_passes,        \* history: combining passes made over g_chord_lines
    g_text_passes          \* history: combining passes made over g_text_lines

groupVars == << g_chord_lines, g_text_lines, g_chord_passes, g_text_passes >>

\* Chord positioning: state
VARIABLES
    p_verse_text,          \* text_content of the lyric line
    p_verse_span_start,    \* x_start of the lyric line, in pixels
    p_verse_span_width,    \* width of the lyric line, in pixels
    p_font_size,           \* font_size of the lyric line
    p_line_tail,           \* further text elements of the same baseline (ChordDetector)
    p_chord_x,             \* pixel x of two chord tokens of one chord line
    p_result,              \* what the positioner returned for each token
    p_pc                   \* "idle" | "ready" | "mapped" | "calculated"

posVars == << p_verse_text, p_verse_span_start, p_verse_span_width, p_font_size, p_line_tail,
              p_chord_x, p_result, p_pc >>

\* Chord attachment: state
VARIABLES
    a_chord_lines,         \* span_data['chord_lines'], combined by baseline
    a_text_lines,          \* the lyric lines, in the order the verse loop appends them
    a_next,                \* index of the next lyric line to append (1-based)
    a_verse_lines          \* the VerseLines appended so far, with their chords

attachVars == << a_chord_lines, a_text_lines, a_next, a_verse_lines >>

\* Language customizations of the parsed verses (Italian profile): state
VARIABLES
    it_current_file,       \* ItalianCustomizations.current_file
    it_verse,              \* a verse of song.verses as the verse loop built it
    it_customized,         \* the verses apply_customizations returned for it
    it_pc                  \* "idle" | "parsed" | "customized"

customVars == << it_current_file, it_verse, it_customized, it_pc >>

\* the span extractor and the text classifier
VARIABLES
    k_spans,               \* the spans of the page, in document order
    k_elements,            \* the PDFTextElements the extractor returned
    k_sorted,              \* classify's sorted_elements
    k_classified,          \* classified_elements
    k_title,               \* classify's title ("" is <<>>)
    k_kapodaster,          \* classify's kapodaster (None is <<>>)
    k_comments,            \* classify's comments
    k_document,            \* <<>> until classify returns, then << the ParsedDocument >>
    k_pc                   \* "idle" | "page" | "extracted" | "classifying" | "classified"

classVars == << k_spans, k_elements, k_sorted, k_classified, k_title, k_kapodaster, k_comments,
                k_document, k_pc >>

\* the file-specific overrides and the hook points of parse
VARIABLES
    h_customizations,      \* customization_manager.customizations
    h_filename,            \* the file name of the document
    h_customization,       \* the override parse looked up (None is "none")
    h_lines,               \* continuation lines the verse loop has still to build
    h_trace,               \* what has run so far, in order
    h_pc                   \* "idle" | "import" | "extract" | "rewrite" | "verses" | "language" | "returned"

hookVars == << h_customizations, h_filename, h_customization, h_lines, h_trace, h_pc >>

\* two workers sharing the parser's Italian customizations
VARIABLES
    sh_current_file,       \* ItalianCustomizations.current_file, shared
    sh_filename,           \* worker -> its document's file name
    sh_verse,              \* worker -> the verse parsed from its document
    sh_song,               \* worker -> the customized verses of its Song
    sh_pc                  \* worker -> parsed, file_set, done

sharedVars == << sh_current_file, sh_filename, sh_verse, sh_song, sh_pc >>

\* batch run over a directory
VARIABLES
    b_is_dir,              \* the input path is a directory
    b_pdf_files,           \* outcome of processing each PDF found, in glob order
    b_next,                \* 1-based index of the next PDF of the loop
    b_attempted,           \* indices of the PDFs whose loop body has run
    b_processed,           \* processed counter
    b_failed,              \* failed counter
    b_exit,                \* return value of parse_folder, -1 while running
    b_pc                   \* start, loop, returned

batchVars == << b_is_dir, b_pdf_files, b_next, b_attempted, b_processed, b_failed, b_exit, b_pc >>

\* one chord in two spellings
VARIABLES
    ch_parts,              \* root, accidental, minor marker and extension of the chord
    ch_merged,             \* chord text of the merged spelling
    ch_spaced,             \* chord text of the spaced spelling
    ch_again,              \* the canonical text after a second canonicalization
    ch_pc                  \* span, extracted, song, again

chordVars == << ch_parts, ch_merged, ch_spaced, ch_again, ch_pc >>

\* chord tokens of one chord span
VARIABLES
    es_language_code,      \* config.language_code
    es_chord_span_text,    \* best_chord_line['text']
    es_chord_span_start,   \* best_chord_line['x_start']
    es_chord_span_width,   \* best_chord_line['width']
    es_chord_positions,    \* the (chord, pixel_x) tokens returned
    es_pc                  \* chord_line, tokenized

spanishVars == << es_language_code, es_chord_span_text, es_chord_span_start, es_chord_span_width, es_chord_positions, es_pc >>

\* text runs of one document and the lines made of them
VARIABLES
    r_runs,                \* the extracted non-blank runs: text, y, category
    r_text_lines,          \* span_data['text_lines']
    r_comment_lines,       \* span_data['comment_lines']
    r_pc                   \* page, extracted, rewritten

runsVars == << r_runs, r_text_lines, r_comment_lines, r_pc >>

\* ChordPro text of one verse line
VARIABLES
    rn_line,               \* the VerseLine: text and chords
    rn_parser_text,        \* its line in export_chordpro's output
    rn_exporter_text,      \* its line as ChordProExporter builds it
    rn_pc                  \* song, and which of the two renderers have run

renderVars == << rn_line, rn_parser_text, rn_exporter_text, rn_pc >>

\* subtitle gating while one document's lines are put into their categories
VARIABLES
    x_language_code,       \* config.language_code
    x_doc,                 \* number of extract() calls so far
    x_lines,               \* the non-blank lines of the current document read so far
    x_subtitle_detection_active, \* local flag of extract()
    x_found_first_role,    \* local flag of extract()
    x_branches,            \* the branch of the chain each line of the document took
    x_pc                   \* returned, lines

gateVars == << x_language_code, x_doc, x_lines, x_subtitle_detection_active, x_found_first_role, x_branches, x_pc >>

\* what the verse loop leaves alone
nonVerseVars == << groupVars, posVars, attachVars, customVars, classVars, hookVars, sharedVars, batchVars, chordVars, spanishVars, runsVars, renderVars, gateVars >>

\* what the grouping leaves alone
nonGroupVars == << verseVars, posVars, attachVars, customVars, classVars, hookVars, sharedVars, batchVars, chordVars, spanishVars, runsVars, renderVars, gateVars >>

\* what the positioners leave alone
nonPosVars == << verseVars, groupVars, attachVars, customVars, classVars, hookVars, sharedVars, batchVars, chordVars, spanishVars, runsVars, renderVars, gateVars >>

\* what the chord attachment leaves alone
nonAttachVars == << verseVars, groupVars, posVars, customVars, classVars, hookVars, sharedVars, batchVars, chordVars, spanishVars, runsVars, renderVars, gateVars >>

\* what the language customizations leave alone
nonCustomVars == << verseVars, groupVars, posVars, attachVars, classVars, hookVars, sharedVars, batchVars, chordVars, spanishVars, runsVars, renderVars, gateVars >>

\* what the extractor and the classifier leave alone
nonClassVars == << verseVars, groupVars, posVars, attachVars, customVars, hookVars, sharedVars, batchVars, chordVars, spanishVars, runsVars, renderVars, gateVars >>

\* what the overrides and the hook points leave alone
nonHookVars == << verseVars, groupVars, posVars, attachVars, customVars, classVars, sharedVars, batchVars, chordVars, spanishVars, runsVars, renderVars, gateVars >>

nonSharedVars == << verseVars, groupVars, posVars, attachVars, customVars, classVars, hookVars, batchVars, chordVars, spanishVars, runsVars, renderVars, gateVars >>

nonBatchVars == << verseVars, groupVars, posVars, attachVars, customVars, classVars, hookVars, sharedVars, chordVars, spanishVars, runsVars, renderVars, gateVars >>

nonChordVars == << verseVars, groupVars, posVars, attachVars, customVars, classVars, hookVars, sharedVars, batchVars, spanishVars, runsVars, renderVars, gateVars >>

nonSpanishVars == << verseVars, groupVars, posVars, attachVars, customVars, classVars, hookVars, sharedVars, batchVars, chordVars, runsVars, renderVars, gateVars >>

nonRunsVars == << verseVars, groupVars, posVars, attachVars, customVars, classVars, hookVars, sharedVars, batchVars, chordVars, spanishVars, renderVars, gateVars >>

nonRenderVars == << verseVars, groupVars, posVars, attachVars, customVars, classVars, hookVars, sharedVars, batchVars, chordVars, spanishVars, runsVars, gateVars >>

nonGateVars == << verseVars, groupVars, posVars, attachVars, customVars, classVars, hookVars, sharedVars, batchVars, chordVars, spanishVars, runsVars, renderVars >>

\* vertical distance between consecutive text lines of the test documents
LineGap == 12

\* line texts the documents are built from
Texts ==
    { <<"K", ".">>,                          \* marker alone
      <<"Z", ".">>,                          \* marker alone
      <<"K", ".", " ", "a", "b">>,           \* marker and lyric on one line
      <<"Z", ".", " ", "a">>,                \* marker and a one-letter lyric
      <<"a", "b">>,                          \* lyric
      <<"\"", "\"">>,                        \* ditto marks only
      <<"C", ":", " ", "x">>,                \* inline comment
      <<"*">> }                              \* footnote marker

\* y of the k-th extracted line under a page layout:
\*   "down": extraction order is top-down, one line per LineGap
\*   "swap": the first two extracted lines are in the opposite vertical order
\*   "tie":  the first two extracted lines share one baseline
Layouts == {"down", "swap", "tie"}

LayoutY(k, layout) ==
    IF layout = "swap" /\ k = 1 THEN 2 * LineGap
    ELSE IF layout = "swap" /\ k = 2 THEN LineGap
    ELSE IF layout = "tie" /\ k = 2 THEN LineGap
    ELSE k * LineGap

\* sorted(text_lines, key=lambda x: x['y'])  (stable)
RECURSIVE InsertByY(_, _)
InsertByY(s, l) ==
    IF s = <<>> THEN <<l>>
    ELSE IF s[Len(s)].y <= l.y THEN Append(s, l)
    ELSE Append(InsertByY(SubSeq(s, 1, Len(s) - 1), l), s[Len(s)])

\* mutant: the lines are walked in extraction order
SortedByY_Unsorted(ls) == ls

RECURSIVE SortedByY(_)
SortedByY(ls) ==
    IF ls = <<>> THEN <<>>
    ELSE InsertByY(SortedByY(SubSeq(ls, 1, Len(ls) - 1)), ls[Len(ls)])

VerseLine(text, chords, original_line, src) ==
    [text |-> text, chords |-> chords, original_line |-> original_line, src |-> src]

\* what _find_chords_with_span_positioning returns for a lyric line of these documents:
\* a chord line "C" lies over the first character of every text line
FoundChords(line) == << [chord |-> <<"C">>, position |-> 0] >>

Verse(role, lines, verse_type) ==
    [role |-> role, lines |-> lines, verse_type |-> verse_type]

\* mutant: a verse without lines is emitted as well
SavePreviousVerse_EmitsEmpty(vs, role, lines) ==
    IF role # <<>> THEN Append(vs, Verse(role, lines, "verse")) ELSE vs

\* mutant: the previous verse is never emitted
SavePreviousVerse_Never(vs, role, lines) == vs

\* mutant: the closed verse is put in front of the list
SavePreviousVerse_InFront(vs, role, lines) ==
    IF lines # <<>> /\ role # <<>> THEN << Verse(role, lines, "verse") >> \o vs
    ELSE vs

\* if current_verse_lines and current_role: verses.append(Verse(...))
SavePreviousVerse(vs, role, lines) ==
    IF lines # <<>> /\ role # <<>> THEN Append(vs, Verse(role, lines, "verse"))
    ELSE vs

CommentVerse(body, original_line, src) ==
    Verse(<<>>, << VerseLine(<<"\n">> \o body \o <<"\n">>, <<>>, original_line, src) >>,
          "comment")

InitVerse ==
    /\ \E n \in 0..MaxLines : \E txt \in [1..n -> Texts] :
       \E layout \in (IF n < 2 THEN {"down"} ELSE Layouts) :
          text_lines = [k \in 1..n |-> [text |-> txt[k], y |-> LayoutY(k, layout)]]
    /\ customization \in Customizations
    /\ text_lines_sorted = <<>>
    /\ i = 1
    /\ verses = <<>>
    /\ current_verse_lines = <<>>
    /\ current_role = <<>>
    /\ processed_indices = {}
    /\ pc = "start"
    /\ current_marker = 0
    /\ role_transitions = 0
    /\ comment_emissions = 0

(***************************************************************************)
(* Verse loop: steps                                                       *)
(***************************************************************************)
InLoop == pc = "loop" /\ i <= Len(text_lines_sorted)

CurText == text_lines_sorted[i].text

\* neither 'i in processed_indices' nor 'not text.strip()' skips the line
Active == InLoop /\ i \notin processed_indices /\ Strip(CurText) # <<>>

SeparateLineRole ==
    Len(Strip(CurText)) <= Len(Strip(ExtractRoleMarker(CurText))) + 2

\* lines 272-278
SortTextLines ==
    /\ pc = "start"
    /\ text_lines_sorted' = SortedByY(text_lines)
    /\ pc' = "loop"
    /\ UNCHANGED nonVerseVars
    /\ UNCHANGED << text_lines, customization, i, verses, current_verse_lines, current_role,
                    processed_indices, current_marker, role_transitions,
                    comment_emissions >>

\* lines 280-291
SkipLine ==
    /\ InLoop
    /\ i \in processed_indices \/ Strip(CurText) = <<>>
    /\ i' = i + 1
    /\ UNCHANGED nonVerseVars
    /\ UNCHANGED << text_lines, customization, text_lines_sorted, verses, current_verse_lines,
                    current_role, processed_indices, pc, current_marker,
                    role_transitions, comment_emissions >>

\* lines 296-321
RoleMarkerSameLine ==
    /\ Active
    /\ ExtractRoleMarker(CurText) # <<>>
    /\ ~SeparateLineRole
    /\ verses' = SavePreviousVerse(verses, current_role, current_verse_lines)
    /\ current_role' = ExtractRoleMarker(CurText)
    /\ processed_indices' = processed_indices \cup {i}
    /\ current_verse_lines' = << VerseLine(TextContent(CurText), FoundChords(text_lines_sorted[i]), CurText, {i}) >>
    /\ current_marker' = i
    /\ role_transitions' = role_transitions + 1
    /\ i' = i + 1
    /\ UNCHANGED nonVerseVars
    /\ UNCHANGED << text_lines, customization, text_lines_sorted, pc, comment_emissions >>


\* mutant: the look-ahead stops at once
RoleLookaheadStop_AtOnce(ls, j) == j

\* lines 329-364: where the look-ahead after a marker on its own line stops
RECURSIVE RoleLookaheadStop(_, _)
RoleLookaheadStop(ls, j) ==
    IF j > Len(ls) THEN j
    ELSE IF Strip(ls[j].text) = <<>> THEN RoleLookaheadStop(ls, j + 1)
    ELSE IF \/ ExtractRoleMarker(ls[j].text) # <<>>
            \/ IsInlineComment(ls[j].text)
            \/ IsAsteriskMarker(ls[j].text) THEN j
    ELSE RoleLookaheadStop(ls, j + 1)

\* the verse lines the look-ahead appends for lines j .. stop-1
RECURSIVE RoleLookaheadLines(_, _, _)
RoleLookaheadLines(ls, j, stop) ==
    IF j >= stop THEN <<>>
    ELSE IF Strip(ls[j].text) = <<>> THEN RoleLookaheadLines(ls, j + 1, stop)
    ELSE << VerseLine(TextContent(ls[j].text), FoundChords(ls[j]), ls[j].text, {j}) >>
         \o RoleLookaheadLines(ls, j + 1, stop)

\* lines 296-304 and 323-364
RoleMarkerSeparateLine ==
    /\ Active
    /\ ExtractRoleMarker(CurText) # <<>>
    /\ SeparateLineRole
    /\ LET stop == RoleLookaheadStop(text_lines_sorted, i + 1)
       IN  /\ current_verse_lines' = RoleLookaheadLines(text_lines_sorted, i + 1, stop)
           /\ processed_indices' = processed_indices \cup {i}
                \cup { j \in (i + 1)..(stop - 1) : Strip(text_lines_sorted[j].text) # <<>> }
    /\ verses' = SavePreviousVerse(verses, current_role, current_verse_lines)
    /\ current_role' = ExtractRoleMarker(CurText)
    /\ current_marker' = i
    /\ role_transitions' = role_transitions + 1
    /\ i' = i + 1
    /\ UNCHANGED nonVerseVars
    /\ UNCHANGED << text_lines, customization, text_lines_sorted, pc, comment_emissions >>

\* lines 366-384
InlineComment ==
    /\ Active
    /\ ExtractRoleMarker(CurText) = <<>>
    /\ IsInlineComment(CurText)
    /\ verses' = Append(SavePreviousVerse(verses, current_role, current_verse_lines),
                        CommentVerse(FormatInlineComment(CurText), CurText, {i}))
    /\ IF current_verse_lines # <<>> /\ current_role # <<>>
       THEN current_verse_lines' = <<>> /\ current_role' = <<>> /\ current_marker' = 0
       ELSE UNCHANGED << current_verse_lines, current_role, current_marker >>
    /\ processed_indices' = processed_indices \cup {i}
    /\ comment_emissions' = comment_emissions + 1
    /\ i' = i + 1
    /\ UNCHANGED nonVerseVars
    /\ UNCHANGED << text_lines, customization, text_lines_sorted, pc, role_transitions >>

\* lines 397-412: where the look-ahead after a footnote marker stops
RECURSIVE AsteriskLookaheadStop(_, _)
AsteriskLookaheadStop(ls, j) ==
    IF j > Len(ls) THEN j
    ELSE IF \/ Strip(ls[j].text) = <<>>
            \/ ExtractRoleMarker(Strip(ls[j].text)) # <<>>
            \/ IsAsteriskMarker(Strip(ls[j].text)) THEN j
    ELSE AsteriskLookaheadStop(ls, j + 1)

\* ' '.join(comment_text_lines) for lines j .. stop-1
RECURSIVE JoinStripped(_, _, _)
JoinStripped(ls, j, stop) ==
    IF j >= stop THEN <<>>
    ELSE IF j + 1 >= stop THEN Strip(ls[j].text)
    ELSE Strip(ls[j].text) \o <<" ">> \o JoinStripped(ls, j + 1, stop)

\* lines 386-429
AsteriskComment ==
    /\ Active
    /\ ExtractRoleMarker(CurText) = <<>>
    /\ ~IsInlineComment(CurText)
    /\ IsAsteriskMarker(CurText)
    /\ LET stop == AsteriskLookaheadStop(text_lines_sorted, i + 1)
           combined_text ==
               IF stop > i + 1
               THEN Strip(CurText) \o <<" ">> \o JoinStripped(text_lines_sorted, i + 1, stop)
               ELSE Strip(CurText)
       IN  /\ verses' = Append(SavePreviousVerse(verses, current_role, current_verse_lines),
                               CommentVerse(CommentOpen \o combined_text \o <<"}">>,
                                            CurText, i..(stop - 1)))
           /\ processed_indices' = processed_indices \cup (i..(stop - 1))
    /\ IF current_verse_lines # <<>> /\ current_role # <<>>
       THEN current_verse_lines' = <<>> /\ current_role' = <<>> /\ current_marker' = 0
       ELSE UNCHANGED << current_verse_lines, current_role, current_marker >>
    /\ comment_emissions' = comment_emissions + 1
    /\ i' = i + 1
    /\ UNCHANGED nonVerseVars
    /\ UNCHANGED << text_lines, customization, text_lines_sorted, pc, role_transitions >>

PlainLine ==
    /\ Active
    /\ ExtractRoleMarker(CurText) = <<>>
    /\ ~IsInlineComment(CurText)
    /\ ~IsAsteriskMarker(CurText)

\* lines 433-441
ContinuationText(text) ==
    IF customization = "hr002" THEN HR002CustomizeVerseText(text) ELSE CleanText(text)

\* lines 431-461
ContinuationLine ==
    /\ PlainLine
    /\ current_role # <<>>
    /\ IF ContinuationText(CurText) # <<>>
       THEN /\ current_verse_lines' =
                 Append(current_verse_lines,
                        VerseLine(ContinuationText(CurText), FoundChords(text_lines_sorted[i]),
                                  CurText, {i}))
            /\ processed_indices' = processed_indices \cup {i}
       ELSE UNCHANGED << current_verse_lines, processed_indices >>
    /\ i' = i + 1
    /\ UNCHANGED nonVerseVars
    /\ UNCHANGED << text_lines, customization, text_lines_sorted, verses, current_role, pc,
                    current_marker, role_transitions, comment_emissions >>

\* lines 431 and 461: no branch of the if/elif chain takes the line
UnassignedLine ==
    /\ PlainLine
    /\ current_role = <<>>
    /\ i' = i + 1
    /\ UNCHANGED nonVerseVars
    /\ UNCHANGED << text_lines, customization, text_lines_sorted, verses, current_verse_lines,
                    current_role, processed_indices, pc, current_marker,
                    role_transitions, comment_emissions >>

\* mutant: the loop ends without the final save
FinalVerse_NoSave ==
    /\ pc = "loop"
    /\ i > Len(text_lines_sorted)
    /\ pc' = "done"
    /\ UNCHANGED nonVerseVars
    /\ UNCHANGED << text_lines, customization, text_lines_sorted, i, verses,
                    current_verse_lines, current_role, processed_indices,
                    current_marker, role_transitions, comment_emissions >>

\* lines 463-468
FinalVerse ==
    /\ pc = "loop"
    /\ i > Len(text_lines_sorted)
    /\ verses' = SavePreviousVerse(verses, current_role, current_verse_lines)
    /\ pc' = "done"
    /\ UNCHANGED nonVerseVars
    /\ UNCHANGED << text_lines, customization, text_lines_sorted, i, current_verse_lines,
                    current_role, processed_indices, current_marker,
                    role_transitions, comment_emissions >>

(***************************************************************************)
(* Y-tolerance grouping of the extractor                                   *)
(***************************************************************************)
MaxRuns == 4
MaxPasses == 2

\* y is kept in sub-pixel units: Px units make one pixel
Px == 2

\* abs(y_pos - existing_y) < 1.0
ChordYTolerancePx == 1

\* abs(y_pos - existing_y) < 5.0
SpanishYTolerancePx == 5

\* (line['x_start'] - current_x) / 6
ApproxCharWidth == 6

RunWidth == 20
RunPitch == 30

Abs(n) == IF n < 0 THEN -n ELSE n

\* line_data of extract(), with the fields grouping reads or writes
LineData(text, x_start, width, y, spans) ==
    [text |-> text, text_content |-> Strip(text), x_start |-> x_start,
     x_end |-> x_start + width, width |-> width, y |-> y, spans |-> spans]

\* the y_groups dict: insertion-ordered, keyed by the y of a group's first line
RECURSIVE GroupByY(_, _, _)
GroupByY(ls, tol, groups) ==
    IF ls = <<>> THEN groups
    ELSE LET l == Head(ls)
             hits == { g \in 1..Len(groups) : Abs(l.y - groups[g].key) < tol }
         IN  IF hits = {}
             THEN GroupByY(Tail(ls), tol, Append(groups, [key |-> l.y, members |-> <<l>>]))
             ELSE GroupByY(Tail(ls), tol,
                           [groups EXCEPT ![MinOf(hits)].members = Append(@, l)])

\* sorted(lines, key=lambda x: x['x_start'])  (stable)
RECURSIVE InsertByX(_, _)
InsertByX(s, l) ==
    IF s = <<>> THEN <<l>>
    ELSE IF s[Len(s)].x_start <= l.x_start THEN Append(s, l)
    ELSE Append(InsertByX(SubSeq(s, 1, Len(s) - 1), l), s[Len(s)])

RECURSIVE SortedByX(_)
SortedByX(ls) ==
    IF ls = <<>> THEN <<>>
    ELSE InsertByX(SortedByX(SubSeq(ls, 1, Len(ls) - 1)), ls[Len(ls)])

Spaces(n) == [k \in 1..n |-> " "]

\* the combined_text loop of _merge_chord_lines_at_same_y
RECURSIVE ChordTextFrom(_, _, _)
ChordTextFrom(sorted_lines, current_x, combined_text) ==
    IF sorted_lines = <<>> THEN combined_text
    ELSE LET line == Head(sorted_lines)
             gap == line.x_start - current_x
             spaces_needed == IF gap <= 0 THEN 0 ELSE gap \div ApproxCharWidth
         IN  ChordTextFrom(Tail(sorted_lines), line.x_end,
                           combined_text \o Spaces(spaces_needed) \o Strip(line.text))

RECURSIVE ConcatSpans(_)
ConcatSpans(ls) == IF ls = <<>> THEN <<>> ELSE Head(ls).spans \o ConcatSpans(Tail(ls))

MergeChordLinesAtSameY(lines, y_pos) ==
    LET sorted_lines == SortedByX(lines)
        min_x == MinOf({ sorted_lines[k].x_start : k \in 1..Len(sorted_lines) })
        max_x == MaxOf({ sorted_lines[k].x_end : k \in 1..Len(sorted_lines) })
        combined_text == ChordTextFrom(sorted_lines, min_x, <<>>)
    IN  [text |-> combined_text, text_content |-> Strip(combined_text),
         x_start |-> min_x, x_end |-> max_x, width |-> max_x - min_x,
         y |-> y_pos, spans |-> ConcatSpans(sorted_lines)]

RECURSIVE CombineChordGroups(_)
CombineChordGroups(groups) ==
    IF groups = <<>> THEN <<>>
    ELSE LET g == Head(groups)
         IN  (IF Len(g.members) = 1 THEN g.members
              ELSE << MergeChordLinesAtSameY(g.members, g.key) >>)
             \o CombineChordGroups(Tail(groups))

CombineChordLinesByYPosition(lines) ==
    CombineChordGroups(GroupByY(lines, ChordYTolerancePx * Px, <<>>))

Letters == {"A", "S", "a", "e", "v", "x"}

\* str.isalpha()
IsAlpha(s) == s # <<>> /\ \A k \in 1..Len(s) : s[k] \in Letters

\* len(text) <= 3 and text.endswith('.') and text[:-1].isalpha()
LooksLikeRoleMarker(line) ==
    LET text == Strip(line.text)
    IN  /\ Len(text) <= 3
        /\ EndsWith(text, <<".">>)
        /\ IsAlpha(SubSeq(text, 1, Len(text) - 1))

RECURSIVE SelectLines(_, _)
SelectLines(ls, keep_markers) ==
    IF ls = <<>> THEN <<>>
    ELSE (IF LooksLikeRoleMarker(Head(ls)) = keep_markers THEN <<Head(ls)>> ELSE <<>>)
         \o SelectLines(Tail(ls), keep_markers)

\* ' '.join of the non-empty stripped texts
RECURSIVE JoinTexts(_)
JoinTexts(ls) ==
    IF ls = <<>> THEN <<>>
    ELSE LET rest == JoinTexts(Tail(ls))
             text == Strip(Head(ls).text)
         IN  IF text = <<>> THEN rest
             ELSE IF rest = <<>> THEN text
             ELSE text \o <<" ">> \o rest

\* the list _merge_spanish_chord_spaced_lines returns, << >> standing for None
MergeSpanishChordSpacedLines(lines, y_pos) ==
    LET sorted_lines == SortedByX(lines)
        role_lines == SelectLines(sorted_lines, TRUE)
        combinable_lines == SelectLines(sorted_lines, FALSE)
    IN  IF Len(lines) < 2 \/ Len(combinable_lines) < 2 THEN <<>>
        ELSE LET combined_text == JoinTexts(combinable_lines)
                 combined_x_start == combinable_lines[1].x_start
                 last_line == combinable_lines[Len(combinable_lines)]
             IN  role_lines \o
                 << [text |-> combined_text, text_content |-> Strip(combined_text),
                     x_start |-> combined_x_start,
                     x_end |-> last_line.x_start + last_line.width,
                     width |-> (last_line.x_start + last_line.width) - combined_x_start,
                     y |-> y_pos, spans |-> combinable_lines[1].spans] >>

RECURSIVE CombineSpanishGroups(_)
CombineSpanishGroups(groups) ==
    IF groups = <<>> THEN <<>>
    ELSE LET g == Head(groups)
             merge_result == MergeSpanishChordSpacedLines(g.members, g.key)
         IN  (IF Len(g.members) = 1 THEN g.members
              ELSE IF merge_result # <<>> THEN merge_result
              ELSE g.members)
             \o CombineSpanishGroups(Tail(groups))

CombineSpanishChordSpacedLines(lines) ==
    CombineSpanishGroups(GroupByY(lines, SpanishYTolerancePx * Px, <<>>))

(***************************************************************************)
(* Chord positioning: a chord's pixel x mapped to a character offset       *)
(***************************************************************************)
MaxTextLen == 3
MaxChordX == 20

\* ImprovedPDFExtractor.arial_char_widths, the characters of the test lyrics
arial_char_widths == [c \in {"W", "a", "i"} |-> CASE c = "W" -> 944 [] c = "a" -> 556 [] c = "i" -> 222]

\* arial_char_widths.get(char, 556)
DefaultFontUnits == 556

\* a pixel coordinate in units of 1/2000 pixel, in which half a character width is whole
ToUnits(px) == px * 2000

\* get_char_width: (font_units / 1000.0) * font_size, in units of 1/2000 pixel
GetCharWidth(char, font_size) ==
    LET font_units == IF char \in DOMAIN arial_char_widths THEN arial_char_widths[char]
                      ELSE DefaultFontUnits
    IN  2 * font_units * font_size

\* the scan, were it to stop at a character's left edge instead of its center
RECURSIVE CharScan_LeftEdge(_, _, _, _, _)
CharScan_LeftEdge(verse_text, k, current_pixel, verse_pixel_x, font_size) ==
    IF k > Len(verse_text) THEN Len(verse_text)
    ELSE IF verse_pixel_x <= current_pixel THEN k - 1
         ELSE CharScan_LeftEdge(verse_text, k + 1,
                                current_pixel + GetCharWidth(verse_text[k], font_size),
                                verse_pixel_x, font_size)

\* the for loop of map_chord_to_verse_position from character k on (1-based);
\* the value is char_position when the loop ends
RECURSIVE CharScan(_, _, _, _, _)
CharScan(verse_text, k, current_pixel, verse_pixel_x, font_size) ==
    IF k > Len(verse_text) THEN Len(verse_text)
    ELSE LET char_width == GetCharWidth(verse_text[k], font_size)
             char_center == current_pixel + char_width \div 2
         IN  IF verse_pixel_x <= char_center THEN k - 1
             ELSE CharScan(verse_text, k + 1, current_pixel + char_width, verse_pixel_x, font_size)

\* the clamp, were it to measure the chord from the right edge of the span
ClampToSpan_Mirrored(chord_pixel_x, verse_span_start, verse_span_width) ==
    2 * verse_span_start + verse_span_width
        - MaxOf({verse_span_start, MinOf({chord_pixel_x, verse_span_start + verse_span_width})})

\* max(verse_span_start, min(chord_pixel_x, verse_span_start + verse_span_width))
ClampToSpan(chord_pixel_x, verse_span_start, verse_span_width) ==
    MaxOf({verse_span_start, MinOf({chord_pixel_x, verse_span_start + verse_span_width})})

\* map_chord_to_verse_position; chord_span_start and chord_span_width are not read by the code
MapChordToVersePosition(chord_pixel_x, verse_text, verse_span_start, verse_span_width, font_size) ==
    IF verse_span_width = 0 THEN 0
    ELSE LET chord_x_clamped == ClampToSpan(chord_pixel_x, verse_span_start, verse_span_width)
             char_position == CharScan(verse_text, 1, ToUnits(verse_span_start),
                                       ToUnits(chord_x_clamped), font_size)
         IN  MaxOf({0, MinOf({char_position, Len(verse_text)})})

\* PDFTextElement of a lyric run, as ChordDetector reads it
TextElement(text, x, width) == [text |-> text, x |-> x, width |-> width]

\* ChordDetector._calculate_chord_position over the text elements of one baseline.
\* elem is the index of the element the offset counts in; raised records the
\* ZeroDivisionError of relative_x / char_width for an element of width 0.
CalculateChordPosition(chord_x, text_line) ==
    IF text_line = <<>> THEN [position |-> 0, elem |-> 0, raised |-> FALSE]
    ELSE LET inside == { k \in 1..Len(text_line) :
                           /\ text_line[k].x <= chord_x
                           /\ chord_x <= text_line[k].x + text_line[k].width }
         IN  IF inside # {}
             THEN LET k == MinOf(inside)
                      elem == text_line[k]
                      relative_x == chord_x - elem.x
                  IN  IF elem.width = 0
                      THEN [position |-> 0, elem |-> k, raised |-> TRUE]
                      ELSE [position |-> MinOf({(relative_x * Len(elem.text)) \div elem.width,
                                                Len(elem.text)}),
                            elem |-> k, raised |-> FALSE]
             ELSE LET dist(k) == Abs(text_line[k].x - chord_x)
                      c == MinOf({ k \in 1..Len(text_line) :
                                     \A q \in 1..Len(text_line) : dist(k) <= dist(q) })
                  IN  [position |-> IF chord_x < text_line[c].x THEN 0 ELSE Len(text_line[c].text),
                       elem |-> c, raised |-> FALSE]

PosChars == {"W", "a", "i"}

PosTexts == UNION { [1..n -> PosChars] : n \in 1..MaxTextLen }

SpanStart == 4

SpanWidths == {0, 8, 16}

FontSizes == {8, 12}

\* a second lyric run on the same baseline, right of the first one
TailGap == 2
TailElement(x) == TextElement(<<"a", "a">>, x, 8)

PosIdle ==
    /\ p_verse_text = <<>>
    /\ p_verse_span_start = 0
    /\ p_verse_span_width = 0
    /\ p_font_size = 0
    /\ p_line_tail = <<>>
    /\ p_chord_x = <<>>
    /\ p_result = <<>>
    /\ p_pc = "idle"

InitPos ==
    /\ p_verse_text \in PosTexts
    /\ p_verse_span_start = SpanStart
    /\ p_verse_span_width \in SpanWidths
    /\ p_font_size \in FontSizes
    /\ p_line_tail \in { <<>>, << TailElement(p_verse_span_start + p_verse_span_width + TailGap) >> }
    /\ p_chord_x \in { x \in (0..MaxChordX) \X (0..MaxChordX) : x[1] < x[2] }
    /\ p_result = <<>>
    /\ p_pc = "ready"

\* _find_chords_with_span_positioning, lines 516-526: every token of the chord line
\* is mapped against the same lyric line
MapChords ==
    /\ p_pc = "ready"
    /\ p_line_tail = <<>>
    /\ p_result' = [t \in 1..Len(p_chord_x) |->
                      [position |-> MapChordToVersePosition(p_chord_x[t], p_verse_text,
                                        p_verse_span_start, p_verse_span_width, p_font_size),
                       elem |-> 1, raised |-> FALSE]]
    /\ p_pc' = "mapped"
    /\ UNCHANGED << p_verse_text, p_verse_span_start, p_verse_span_width, p_font_size,
                    p_line_tail, p_chord_x >>
    /\ UNCHANGED nonPosVars

\* ChordDetector._position_chords_to_lyrics, lines 251-260
CalculateChordPositions ==
    /\ p_pc = "ready"
    /\ LET text_line == << TextElement(p_verse_text, p_verse_span_start, p_verse_span_width) >>
                          \o p_line_tail
       IN  p_result' = [t \in 1..Len(p_chord_x) |-> CalculateChordPosition(p_chord_x[t], text_line)]
    /\ p_pc' = "calculated"
    /\ UNCHANGED << p_verse_text, p_verse_span_start, p_verse_span_width, p_font_size,
                    p_line_tail, p_chord_x >>
    /\ UNCHANGED nonPosVars

(***************************************************************************)
(* Chord attachment: the chord line chosen for a lyric line                *)
(***************************************************************************)
MaxChordLines == 2
MaxAttachLines == 3

\* _find_chords_with_span_positioning: "if distance > 18.0", in pixels
MaxChordGapPx == 18

\* the chords of LanguageConfig.valid_chords that the test chord lines use
valid_chords == { <<"C">>, <<"G">> }

\* str.find(p, start) with a 0-based start; -1 when p does not occur
Find(s, p, start) ==
    LET hits == { k \in (start + 1)..(Len(s) - Len(p) + 1) : SubSeq(s, k, k + Len(p) - 1) = p }
    IN  IF hits = {} THEN -1 ELSE MinOf(hits) - 1

\* str.split(): the whitespace-separated words of s
RECURSIVE SplitWords(_, _)
SplitWords(s, word) ==
    IF s = <<>> THEN (IF word = <<>> THEN <<>> ELSE << word >>)
    ELSE IF Head(s) = " "
         THEN (IF word = <<>> THEN <<>> ELSE << word >>) \o SplitWords(Tail(s), <<>>)
         ELSE SplitWords(Tail(s), Append(word, Head(s)))

\* _looks_like_chord for words without spaces and digits (which _normalize_chord keeps)
LooksLikeChord(word) ==
    \/ word \in valid_chords
    \/ \E k \in 1..(Len(word) - 1) :
          /\ SubSeq(word, 1, k) \in valid_chords
          /\ SubSeq(word, k + 1, Len(word)) \in valid_chords

\* the loop of find_chord_positions_in_span over the words from the first one on; the
\* test chord lines have widths that make the proportional pixel position a whole pixel
RECURSIVE ChordPositionsFrom(_, _, _, _, _)
ChordPositionsFrom(words, current_pos, chord_span_text, chord_span_start, chord_span_width) ==
    IF words = <<>> THEN <<>>
    ELSE LET word == Head(words)
             word_start_in_text == Find(chord_span_text, word, current_pos)
         IN  IF LooksLikeChord(word) /\ word_start_in_text # -1
             THEN << [chord |-> word,
                      pixel_x |-> chord_span_start
                                    + (word_start_in_text * chord_span_width)
                                        \div Len(chord_span_text)] >>
                  \o ChordPositionsFrom(Tail(words), word_start_in_text + Len(word),
                                        chord_span_text, chord_span_start, chord_span_width)
             ELSE ChordPositionsFrom(Tail(words), current_pos,
                                     chord_span_text, chord_span_start, chord_span_width)

\* find_chord_positions_in_span, Croatian and Slovenian profiles
FindChordPositionsInSpan(chord_span_text, chord_span_start, chord_span_width) ==
    ChordPositionsFrom(SplitWords(chord_span_text, <<>>), 0,
                       chord_span_text, chord_span_start, chord_span_width)

\* a chord line of span_data
ChordLineData(text, x_start, width, y) == [text |-> text, x_start |-> x_start, width |-> width, y |-> y]

\* a lyric line of span_data
TextLineData(text_content, x_start, width, y, font_size) ==
    [text_content |-> text_content, x_start |-> x_start, width |-> width, y |-> y,
     font_size |-> font_size]

\* Chord(chord, position, pixel_x); line is the index of the chord line it was read from
Chord(chord, position, pixel_x, line) ==
    [chord |-> chord, position |-> position, pixel_x |-> pixel_x, line |-> line]

\* sorted(chords, key=lambda x: x.position), which is stable
RECURSIVE InsertByPosition(_, _)
InsertByPosition(s, c) ==
    IF s = <<>> THEN << c >>
    ELSE IF c.position < Head(s).position THEN << c >> \o s
         ELSE << Head(s) >> \o InsertByPosition(Tail(s), c)

RECURSIVE SortedByPosition(_)
SortedByPosition(cs) ==
    IF cs = <<>> THEN <<>>
    ELSE InsertByPosition(SortedByPosition(SubSeq(cs, 1, Len(cs) - 1)), cs[Len(cs)])

\* the selection, were it to take the closest chord line on either side of the lyric line
BestChordLine_AnySide(text_y, chord_lines) ==
    LET closest == { k \in 1..Len(chord_lines) :
                       \A q \in 1..Len(chord_lines) :
                           Abs(text_y - chord_lines[k].y) <= Abs(text_y - chord_lines[q].y) }
    IN  IF chord_lines = <<>> THEN 0 ELSE MinOf(closest)

\* lines 484-495: index of the closest chord line above the lyric line, 0 when there is none
BestChordLine(text_y, chord_lines) ==
    LET above == { k \in 1..Len(chord_lines) : chord_lines[k].y < text_y }
        closest == { k \in above : \A q \in above : chord_lines[q].y <= chord_lines[k].y }
    IN  IF above = {} THEN 0 ELSE MinOf(closest)

\* _find_chords_with_span_positioning
FindChordsWithSpanPositioning(text_line_data, chord_lines) ==
    LET best == BestChordLine(text_line_data.y, chord_lines) IN
    IF best = 0 THEN <<>>
    ELSE IF text_line_data.y - chord_lines[best].y > MaxChordGapPx THEN <<>>
    ELSE LET best_chord_line == chord_lines[best]
             chord_positions == FindChordPositionsInSpan(best_chord_line.text,
                                    best_chord_line.x_start, best_chord_line.width)
             chords == [t \in 1..Len(chord_positions) |->
                          Chord(chord_positions[t].chord,
                                MapChordToVersePosition(chord_positions[t].pixel_x,
                                    text_line_data.text_content, text_line_data.x_start,
                                    text_line_data.width, text_line_data.font_size),
                                chord_positions[t].pixel_x, best)]
         IN  SortedByPosition(chords)

ChordLineTexts == { <<"C">>, <<"C", " ", "G">>, <<"x", " ", "C">> }

ChordLineWidths == {12, 24}

ChordLineYs == {1, 2, 12, 20, 29}

AttachLineYs == {20, 30, 38}

AttachLineText == <<"a", "W", "i">>

AttachLineX == 4
AttachLineWidth == 16
AttachFontSize == 12

ChordLineChoices ==
    { ChordLineData(t, 0, w, y) : t \in ChordLineTexts, w \in ChordLineWidths, y \in ChordLineYs }

\* the lyric lines at the baselines ys, top to bottom
RECURSIVE LinesAt(_)
LinesAt(ys) ==
    IF ys = {} THEN <<>>
    ELSE << TextLineData(AttachLineText, AttachLineX, AttachLineWidth, MinOf(ys), AttachFontSize) >>
         \o LinesAt(ys \ {MinOf(ys)})

AttachIdle ==
    /\ a_chord_lines = <<>>
    /\ a_text_lines = <<>>
    /\ a_next = 0
    /\ a_verse_lines = <<>>

\* chord lines after combining have pairwise different baselines
InitAttach ==
    /\ \E n \in 0..MaxChordLines :
          a_chord_lines \in { cl \in [1..n -> ChordLineChoices] :
                                \A j, k \in 1..n : j # k => cl[j].y # cl[k].y }
    /\ \E ys \in SUBSET AttachLineYs :
          /\ ys # {}
          /\ Cardinality(ys) <= MaxAttachLines
          /\ a_text_lines = LinesAt(ys)
    /\ a_next = 1
    /\ a_verse_lines = <<>>

\* a VerseLine is appended (lines 312-319, 352-360, 446-455)
AppendVerseLine ==
    /\ a_next \in 1..Len(a_text_lines)
    /\ LET text_line_data == a_text_lines[a_next]
           chords == FindChordsWithSpanPositioning(text_line_data, a_chord_lines)
       IN  a_verse_lines' = Append(a_verse_lines,
                                   [text |-> text_line_data.text_content, chords |-> chords,
                                    y |-> text_line_data.y])
    /\ a_next' = a_next + 1
    /\ UNCHANGED << a_chord_lines, a_text_lines >>
    /\ UNCHANGED nonAttachVars

(***************************************************************************)
(* Language customizations: ItalianCustomizations.apply_customizations     *)
(***************************************************************************)
MaxVerseLines == 2
MaxLineChords == 2

italian_roots == { <<"D", "o">>, <<"R", "e">>, <<"M", "i">>, <<"F", "a">>, <<"S", "o", "l">>,
                   <<"L", "a">>, <<"S", "i">> }

\* _should_apply_chord_on_same_line_fix: files_needing_fix = ['032']
ShouldApplyChordOnSameLineFix(current_file) == Contains(current_file, <<"0", "3", "2">>)

UpperOf == [c \in {"a", "b", "c", "d", "i"} |->
              CASE c = "a" -> "A" [] c = "b" -> "B" [] c = "c" -> "C" [] c = "d" -> "D" [] c = "i" -> "I"]

LowerOf == [c \in {"C", "M"} |-> CASE c = "C" -> "c" [] c = "M" -> "m"]

\* str.upper() and str.lower() on the characters of the test lyrics
Upper(s) == [k \in 1..Len(s) |-> IF s[k] \in DOMAIN UpperOf THEN UpperOf[s[k]] ELSE s[k]]
Lower(s) == [k \in 1..Len(s) |-> IF s[k] \in DOMAIN LowerOf THEN LowerOf[s[k]] ELSE s[k]]

\* _is_italian_subtitle_line, lines 776-785: the text starts with "cfr." and has 10 to
\* 100 characters.  The reference-format test of lines 787-797 narrows this further.
IsItalianSubtitleLine(text) ==
    LET text_clean == Lower(Strip(text)) IN
    /\ text # <<>>
    /\ StartsWith(text_clean, <<"c", "f", "r", ".">>)
    /\ 10 <= Len(text_clean) /\ Len(text_clean) <= 100

\* _looks_like_italian_chord (the later definition, line 631) for a word without
\* extension, accidental or parentheses: the word is a chord root
LooksLikeItalianChord(word) == word \in italian_roots

\* _looks_like_italian_chord_sequence for words without chord extensions: every chord
\* unit is one word, and at least half of the words are chord units
LooksLikeItalianChordSequence(text) ==
    LET words == SplitWords(text, <<>>)
        chord_units == { k \in 1..Len(words) : LooksLikeItalianChord(words[k]) }
    IN  /\ Len(Strip(text)) >= 2
        /\ words # <<>>
        /\ chord_units # {}
        /\ 2 * Cardinality(chord_units) >= Len(words)

\* end of the run of spaces that starts at index k of s
RECURSIVE EndOfSpaces(_, _)
EndOfSpaces(s, k) == IF k < Len(s) /\ s[k + 1] = " " THEN EndOfSpaces(s, k + 1) ELSE k

\* re.match(r'^(.+\*)\s{2,}(.+)$', text): group 1 ends at the last asterisk that is
\* preceded by a character and followed by two or more spaces and then by more text
TrailingMatch(text) ==
    LET stars == { k \in 2..Len(text) :
                     /\ text[k] = "*"
                     /\ k + 2 <= Len(text)
                     /\ text[k + 1] = " " /\ text[k + 2] = " "
                     /\ EndOfSpaces(text, k + 1) < Len(text) }
    IN  IF stars = {} THEN <<>>
        ELSE LET k == MaxOf(stars)
             IN  << SubSeq(text, 1, k), SubSeq(text, EndOfSpaces(text, k + 1) + 1, Len(text)) >>

\* _extract_trailing_chord_info; <<>> stands for None
ExtractTrailingChordInfo(line) ==
    IF line.text = <<>> THEN <<>>
    ELSE LET match == TrailingMatch(Strip(line.text)) IN
         IF match = <<>> THEN <<>>
         ELSE LET text_part == Strip(match[1])
                  chord_part == Strip(match[2])
              IN  IF LooksLikeItalianChordSequence(chord_part)
                  THEN << [chord_text |-> chord_part, text_part |-> text_part] >>
                  ELSE <<>>

\* _extract_trailing_chords_from_text
ExtractTrailingChordsFromText(line, current_file) ==
    IF line.text = <<>> \/ ~ShouldApplyChordOnSameLineFix(current_file) THEN line
    ELSE LET chord_info == ExtractTrailingChordInfo(line) IN
         IF chord_info = <<>> THEN line
         ELSE [line EXCEPT !.text = chord_info[1].text_part]

\* _apply_italian_text_formatting; the test lyrics hold no chord markers in brackets
ApplyItalianTextFormatting(text, role) == IF role = <<"A", ".">> THEN Upper(text) ELSE text

\* the root of italian_roots the chord starts with, in a tuple; no root is the
\* start of another, so the order of the for loop does not matter
ItalianRootOf(chord) ==
    IF \E root \in italian_roots : StartsWith(chord, root)
    THEN << CHOOSE root \in italian_roots : StartsWith(chord, root) >>
    ELSE <<>>

\* ['7', '9', '6', '4', '2', '11', '13']
number_extensions ==
    { <<"7">>, <<"9">>, <<"6">>, <<"4">>, <<"2">>, <<"1", "1">>, <<"1", "3">> }

\* ['maj7', 'dim', 'aug', 'sus4', 'sus2']
complex_extensions ==
    { <<"m", "a", "j", "7">>, <<"d", "i", "m">>, <<"a", "u", "g">>,
      <<"s", "u", "s", "4">>, <<"s", "u", "s", "2">> }

\* the branches both merged-chord normalisers share: the result in a tuple, or
\* the empty tuple when none of them returns
SplitMergedChord(chord, root, remaining) ==
    IF remaining = <<>> THEN << chord >>
    ELSE IF remaining = <<"m">> THEN << root \o <<" ", "m">> >>
    ELSE IF Head(remaining) = "m" /\ Len(remaining) > 1
         THEN << root \o <<" ", "m", " ">> \o Tail(remaining) >>
    ELSE IF remaining \in number_extensions \cup complex_extensions
         THEN << root \o <<" ">> \o remaining >>
    ELSE <<>>

\* ImprovedPDFExtractor._normalize_merged_italian_chord_in_extractor
NormalizeMergedItalianChordInExtractor(chord_text) ==
    IF chord_text = <<>> THEN chord_text
    ELSE LET chord == Strip(chord_text)
             found == ItalianRootOf(chord)
         IN  IF found = <<>> THEN chord
             ELSE LET root == found[1]
                      split == SplitMergedChord(chord, root, SubSeq(chord, Len(root) + 1, Len(chord)))
                  IN  IF split = <<>> THEN chord ELSE split[1]

\* ItalianCustomizations._normalize_merged_italian_chord
RECURSIVE NormalizeMergedItalianChord(_)
NormalizeMergedItalianChord(chord_text) ==
    IF chord_text = <<>> THEN chord_text
    ELSE LET chord == Strip(chord_text) IN
         IF StartsWith(chord, <<"(">>) /\ EndsWith(chord, <<")">>)
         THEN <<"(">> \o NormalizeMergedItalianChord(Strip(SubSeq(chord, 2, Len(chord) - 1)))
                    \o <<")">>
         ELSE LET found == ItalianRootOf(chord) IN
              IF found = <<>> THEN chord
              ELSE LET root == found[1]
                       remaining == SubSeq(chord, Len(root) + 1, Len(chord))
                       split == SplitMergedChord(chord, root, remaining)
                   IN  IF split # <<>> THEN split[1]
                       ELSE IF Head(remaining) \in {"#", "b"}
                       THEN LET accidental == << Head(remaining) >>
                                accidental_remaining == Tail(remaining)
                            IN  IF accidental_remaining = <<>> THEN root \o accidental
                                ELSE IF accidental_remaining = <<"m">>
                                     THEN root \o accidental \o <<" ", "m">>
                                ELSE IF Head(accidental_remaining) = "m"
                                     THEN root \o accidental \o <<" ", "m", " ">>
                                               \o Tail(accidental_remaining)
                                ELSE root \o accidental \o <<" ">> \o accidental_remaining
                       ELSE chord

\* re.sub(r'\s+', '', remaining)
RemoveWhitespace(s) == SelectSeq(s, LAMBDA c : c \notin {" "})

\* _normalize_minor_chord; remaining arrives stripped, so ' m' never starts it
NormalizeMinorChord(root_with_accidental, remaining) ==
    LET stripped == Strip(remaining) IN
    IF ~StartsWith(stripped, <<"m">>) THEN root_with_accidental \o stripped
    ELSE LET extensions == Strip(Tail(stripped)) IN
         IF extensions = <<>> THEN root_with_accidental \o <<" ", "m">>
         ELSE root_with_accidental \o <<" ", "m">> \o RemoveWhitespace(extensions)

\* _normalize_major_chord
NormalizeMajorChord(root_with_accidental, remaining) ==
    LET stripped == Strip(remaining) IN
    IF stripped = <<>> THEN root_with_accidental
    ELSE root_with_accidental \o RemoveWhitespace(stripped)

\* _normalize_italian_chord_format
NormalizeItalianChordFormat_AsIs(chord_text) == chord_text
NormalizeItalianChordFormat(chord_text) ==
    LET chord == Strip(chord_text)
        found == ItalianRootOf(chord)
    IN  IF chord = <<>> \/ found = <<>> THEN chord
        ELSE LET root_chord == found[1]
                 after_root == SubSeq(chord, Len(root_chord) + 1, Len(chord))
                 has_accidental == after_root # <<>> /\ Head(after_root) \in {"#", "b"}
                 accidental == IF has_accidental THEN << Head(after_root) >> ELSE <<>>
                 remaining == Strip(IF has_accidental THEN Tail(after_root) ELSE after_root)
             IN  IF remaining = <<>> THEN root_chord \o accidental
                 ELSE IF StartsWith(remaining, <<"m">>)
                      THEN NormalizeMinorChord(root_chord \o accidental, remaining)
                      ELSE NormalizeMajorChord(root_chord \o accidental, remaining)

\* _normalize_italian_chord
NormalizeItalianChord(chord_text) ==
    IF chord_text = <<>> THEN chord_text
    ELSE LET stripped == Strip(chord_text)
             clean_chord == IF StartsWith(stripped, <<"[">>) /\ EndsWith(stripped, <<"]">>)
                            THEN SubSeq(stripped, 2, Len(stripped) - 1)
                            ELSE stripped
         IN  IF StartsWith(clean_chord, <<"(">>) /\ EndsWith(clean_chord, <<")">>)
             THEN <<"(">> \o NormalizeItalianChordFormat(
                                 Strip(SubSeq(clean_chord, 2, Len(clean_chord) - 1))) \o <<")">>
             ELSE NormalizeItalianChordFormat(clean_chord)

\* chord.chord.strip('[]')
RECURSIVE StripBrackets(_)
StripBrackets(s) ==
    IF s = <<>> THEN s
    ELSE IF Head(s) \in {"[", "]"} THEN StripBrackets(Tail(s))
    ELSE IF s[Len(s)] \in {"[", "]"} THEN StripBrackets(SubSeq(s, 1, Len(s) - 1))
    ELSE s

\* _customize_chord: the name is normalised, position and pixel_x are kept
CustomizeChord(chord) ==
    IF chord.chord = <<>> THEN chord
    ELSE [chord EXCEPT !.chord =
              NormalizeItalianChord(NormalizeMergedItalianChord(StripBrackets(chord.chord)))]

\* _customize_line; original_line is the line's text, not a dict of spans, so
\* _fix_italian_chord_positioning returns the line as it is (line 524)
CustomizeLine(line, role, current_file) ==
    IF line.text = <<>> THEN line
    ELSE LET extracted == IF ShouldApplyChordOnSameLineFix(current_file)
                          THEN ExtractTrailingChordsFromText(line, current_file)
                          ELSE line
         IN  [text |-> ApplyItalianTextFormatting(extracted.text, role),
              chords |-> [t \in 1..Len(extracted.chords) |-> CustomizeChord(extracted.chords[t])]]

\* the line loop of apply_customizations from line k on: the customized lines and
\* the trailing chords to move
RECURSIVE CustomizeLinesFrom(_, _, _, _, _, _)
CustomizeLinesFrom(lines, k, role, current_file, customized_lines, trailing_chords_to_move) ==
    IF k > Len(lines)
    THEN [customized_lines |-> customized_lines, trailing_chords_to_move |-> trailing_chords_to_move]
    ELSE IF IsItalianSubtitleLine(lines[k].text)
         THEN CustomizeLinesFrom(lines, k + 1, role, current_file,
                                 customized_lines, trailing_chords_to_move)
         ELSE LET extracted_chord_info ==
                      IF ShouldApplyChordOnSameLineFix(current_file)
                      THEN ExtractTrailingChordInfo(lines[k]) ELSE <<>>
                  moves == IF extracted_chord_info = <<>> THEN trailing_chords_to_move
                           ELSE Append(trailing_chords_to_move,
                                       [chord_text |-> extracted_chord_info[1].chord_text,
                                        target_line_index |-> Len(customized_lines) + 1])
              IN  CustomizeLinesFrom(lines, k + 1, role, current_file,
                                     Append(customized_lines,
                                            CustomizeLine(lines[k], role, current_file)),
                                     moves)

\* _apply_trailing_chord_movements from movement m on; target_line_index is 0-based
RECURSIVE ApplyTrailingChordMovements(_, _, _)
ApplyTrailingChordMovements(lines, trailing_chords, m) ==
    IF m > Len(trailing_chords) THEN lines
    ELSE LET target_line_index == trailing_chords[m].target_line_index IN
         IF target_line_index < Len(lines)
         THEN LET target_line == lines[target_line_index + 1]
                  chord_position == MaxOf({0, (Len(target_line.text) * 3) \div 4})
                  new_chord == Chord(NormalizeItalianChord(trailing_chords[m].chord_text),
                                     chord_position, 0, 0)
              IN  ApplyTrailingChordMovements(
                      [lines EXCEPT ![target_line_index + 1] =
                          [target_line EXCEPT !.chords = Append(target_line.chords, new_chord)]],
                      trailing_chords, m + 1)
         ELSE ApplyTrailingChordMovements(lines, trailing_chords, m + 1)

\* apply_customizations for one verse without subtitle lines
CustomizeVerse(verse, current_file) ==
    LET r == CustomizeLinesFrom(verse.lines, 1, verse.role, current_file, <<>>, <<>>)
        customized_lines ==
            IF r.trailing_chords_to_move # <<>> /\ ShouldApplyChordOnSameLineFix(current_file)
            THEN ApplyTrailingChordMovements(r.customized_lines, r.trailing_chords_to_move, 1)
            ELSE r.customized_lines
    IN  IF customized_lines = <<>> THEN <<>>
        ELSE << [role |-> verse.role, lines |-> customized_lines, verse_type |-> verse.verse_type] >>

ItalianFiles == { <<"I", "T", "-", "0", "3", "2">>, <<"I", "T", "-", "0", "0", "1">> }

ItalianRoles == { <<"A", ".">>, <<"S", ".">> }

ItalianTexts == { <<"a", "*", " ", " ", "M", "i">>, <<"a", "b", "c", "d">> }

\* the chord lists _find_chords_with_span_positioning can return for a lyric text:
\* sorted by position (line 534), every position within [0, len(text)]
ChordListsOf(text) ==
    UNION { { [t \in 1..n |-> Chord(<<"M", "i">>, ps[t], 0, 0)] :
                ps \in { q \in [1..n -> 0..Len(text)] : \A j \in 1..(n - 1) : q[j] <= q[j + 1] } } :
            n \in 0..MaxLineChords }

ItalianLines == UNION { { [text |-> text, chords |-> cs] : cs \in ChordListsOf(text) } :
                        text \in ItalianTexts }

CustomIdle ==
    /\ it_current_file = <<>>
    /\ it_verse = <<>>
    /\ it_customized = <<>>
    /\ it_pc = "idle"

InitCustom ==
    /\ it_current_file \in ItalianFiles
    /\ \E n \in 1..MaxVerseLines, role \in ItalianRoles :
          \E lines \in [1..n -> ItalianLines] :
              it_verse = [role |-> role, lines |-> lines, verse_type |-> "verse"]
    /\ it_customized = <<>>
    /\ it_pc = "parsed"

\* parse(), line 94: song.verses = self.customizations.apply_customizations(song.verses, None)
ApplyCustomizations ==
    /\ it_pc = "parsed"
    /\ it_customized' = CustomizeVerse(it_verse, it_current_file)
    /\ it_pc' = "customized"
    /\ UNCHANGED << it_current_file, it_verse >>
    /\ UNCHANGED nonCustomVars

(***************************************************************************)
(* Text classifier (core/text_classifier.py) behind the span extractor     *)
(* (core/pdf_extractor.py), Croatian profile.  Confidences are counted in  *)
(* tenths: 0.5 is 5, 1.0 is 10.                                            *)
(***************************************************************************)
\* spans of one page
MaxSpans == 1

\* languages/croatian/config.py, lines 45-47
title_font_size_min == 12
text_font_size_min == 10
chord_font_size_min == 10

\* ClassificationRule.font_size_range default upper end, and the explicit 100.0 of the rules
FontSizeMax == 100

\* TextClassifier.__init__, lines 43-44
title_position_threshold == 100
role_indent_threshold == 50

\* _classify_element, lines 192-194: threshold 0.3 and default confidence 0.5
MinRuleConfidence == 3
DefaultConfidence == 5

\* _post_process_classifications, lines 290, 298 and 300
RoleReclassConfidence == 8
ChordReclassMaxLen == 30
ChordReclassConfidence == 7

UpperLetters ==
    << "A", "B", "C", "D", "E", "F", "G", "H", "I", "J", "K", "L", "M",
       "N", "O", "P", "Q", "R", "S", "T", "U", "V", "W", "X", "Y", "Z" >>

LowerLetters ==
    << "a", "b", "c", "d", "e", "f", "g", "h", "i", "j", "k", "l", "m",
       "n", "o", "p", "q", "r", "s", "t", "u", "v", "w", "x", "y", "z" >>

Digits == { "0", "1", "2", "3", "4", "5", "6", "7", "8", "9" }

Whitespace == { " " }

\* the character a re.IGNORECASE comparison reduces c to
FoldMap ==
    [c \in { UpperLetters[k] : k \in 1..Len(UpperLetters) } |->
        LowerLetters[CHOOSE k \in 1..Len(UpperLetters) : UpperLetters[k] = c]]

FoldChar(c) == IF c \in DOMAIN FoldMap THEN FoldMap[c] ELSE c

FoldCase(s) == [k \in 1..Len(s) |-> FoldChar(s[k])]

AllIn(s, chars) == \A k \in 1..Len(s) : s[k] \in chars

EmptyText_Never(text) == FALSE

\* "if not text" on a str
EmptyText(text) == text = <<>>

\* the class of A-Z and the five Croatian capitals, which are written here by name
TitleLetters ==
    { UpperLetters[k] : k \in 1..Len(UpperLetters) }
        \cup { "C-caron", "S-caron", "Z-caron", "C-acute", "D-stroke" }

\* the title class: TitleLetters, \s, parentheses, hyphen, full stop and \d
TitleChars == TitleLetters \cup Whitespace \cup { "(", ")", "-", "." } \cup Digits

\* [A-Ha-h]
ChordLetters ==
    { UpperLetters[k] : k \in 1..8 } \cup { LowerLetters[k] : k \in 1..8 }

\* [A-Ha-h\s\d\*\#b\+\-\(\)]
ChordChars == ChordLetters \cup Whitespace \cup Digits \cup { "*", "#", "b", "+", "-", "(", ")" }

\* the title patterns of the rule and of the profile (the same two patterns)
TitlePatternMatch(text) ==
    \/ text # <<>> /\ AllIn(text, TitleChars)
    \/ text # <<>> /\ text[1] \in TitleLetters /\ AllIn(Tail(text), TitleChars)

\* for each role: ^role$ and ^role[\s\.]
RolePatternMatch(text) ==
    \E r \in 1..Len(role_markers) :
        LET role == role_markers[r] IN
        \/ text = role
        \/ /\ StartsWith(text, role)
           /\ Len(text) > Len(role)
           /\ text[Len(role) + 1] \in Whitespace \cup { "." }

\* na\s+[IVX]+\.\s*polju, ignoring case, anywhere in the text
FieldPatternMatch(text) ==
    LET t == FoldCase(text) IN
    \E d \in { k \in 1..(Len(t) - 4) : SubSeq(t, k, k + 4) = <<"p", "o", "l", "j", "u">> } :
        \E c \in { k \in 1..(d - 1) : t[k] = "." /\ AllIn(SubSeq(t, k + 1, d - 1), Whitespace) } :
            \E b \in { k \in 1..(c - 1) : AllIn(SubSeq(t, k, c - 1), { "i", "v", "x" }) } :
                \E a \in 1..(b - 3) :
                    /\ SubSeq(t, a, a + 1) = <<"n", "a">>
                    /\ AllIn(SubSeq(t, a + 2, b - 1), Whitespace)

\* kapodaster, kapo and the field pattern; the profile's "Kapodaster na ..." pattern
\* and the rule's "kapodaster" can only match a text that "kapo" matches
KapodasterPatternMatch(text) ==
    \/ Contains(FoldCase(text), <<"k", "a", "p", "o", "d", "a", "s", "t", "e", "r">>)
    \/ Contains(FoldCase(text), <<"k", "a", "p", "o">>)
    \/ FieldPatternMatch(text)

\* ^C:, ^\{comment: (ignoring case) and ^\{.*\}$
CommentPatternMatch(text) ==
    \/ StartsWith(text, <<"C", ":">>)
    \/ StartsWith(FoldCase(text), <<"{", "c", "o", "m", "m", "e", "n", "t", ":">>)
    \/ text # <<>> /\ text[1] = "{" /\ text[Len(text)] = "}"

ChordQualities ==
    { <<>>, <<"s", "u", "s">>, <<"d", "i", "m">>, <<"a", "u", "g">>, <<"m", "a", "j">>,
      <<"m", "i", "n">> }

\* ^\s*[A-Ha-h][#b]?(?:sus|dim|aug|maj|min)?\d*\s*$
SingleChordMatch(text) ==
    LET t == Strip(text) IN
    /\ t # <<>>
    /\ t[1] \in ChordLetters
    /\ \E acc \in { 0, 1 } :
          /\ acc = 1 => (Len(t) >= 2 /\ t[2] \in { "#", "b" })
          /\ \E q \in ChordQualities :
                /\ StartsWith(DropFirst(t, 1 + acc), q)
                /\ AllIn(DropFirst(t, 1 + acc + Len(q)), Digits)

\* ^[A-Ha-h\s\d\*\#b\+\-\(\)]+$
ChordCharsMatch(text) == text # <<>> /\ AllIn(text, ChordChars)

ChordPatternMatch(text) == ChordCharsMatch(text) \/ SingleChordMatch(text)

\* the rules in the order _build_classification_rules appends them; boosts in tenths
classification_rules ==
    << [text_type |-> "title", font_size_min |-> title_font_size_min,
        font_size_max |-> FontSizeMax, confidence_boost |-> 3],
       [text_type |-> "role_marker", font_size_min |-> text_font_size_min,
        font_size_max |-> FontSizeMax, confidence_boost |-> 4],
       [text_type |-> "kapodaster", font_size_min |-> 0,
        font_size_max |-> FontSizeMax, confidence_boost |-> 5],
       [text_type |-> "inline_comment", font_size_min |-> 0,
        font_size_max |-> FontSizeMax, confidence_boost |-> 4],
       [text_type |-> "chord_line", font_size_min |-> 0,
        font_size_max |-> chord_font_size_min + 2, confidence_boost |-> 2] >>

\* "for pattern in rule.patterns: if pattern.search(text)"
PatternMatch(text_type, text) ==
    CASE text_type = "title" -> TitlePatternMatch(text)
      [] text_type = "role_marker" -> RolePatternMatch(text)
      [] text_type = "kapodaster" -> KapodasterPatternMatch(text)
      [] text_type = "inline_comment" -> CommentPatternMatch(text)
      [] text_type = "chord_line" -> ChordPatternMatch(text)

\* min(1.0, confidence)
CapConfidence(c) == IF c > 10 THEN 10 ELSE c

CalculateRuleConfidence(element, rule) ==
    LET text == Strip(element.text)
        base == 5 + rule.confidence_boost
        font == IF rule.font_size_min <= element.font_size /\ element.font_size <= rule.font_size_max
                THEN 2 ELSE 0
        bold == IF rule.text_type = "title" /\ element.is_bold THEN 2 ELSE 0
        pink == IF rule.text_type = "chord_line" /\ element.is_pink THEN 3 ELSE 0
        short == IF rule.text_type = "role_marker" /\ Len(text) <= 10 THEN 2 ELSE 0
        titlelen == IF rule.text_type = "title" /\ 5 <= Len(text) /\ Len(text) <= 50 THEN 1 ELSE 0
    IN  IF ~PatternMatch(rule.text_type, text) THEN 0
        ELSE CapConfidence(base + font + bold + pink + short + titlelen)

ClampConfidence_Unclamped(c) == c

\* min(1.0, max(0.0, adjusted_confidence))
ClampConfidence(c) == IF c > 10 THEN 10 ELSE IF c < 0 THEN 0 ELSE c

ApplyPositionAdjustments(element, text_type, confidence) ==
    LET title == IF text_type # "title" THEN 0
                 ELSE IF element.y < title_position_threshold THEN 2 ELSE -1
        role == IF text_type = "role_marker" /\ element.x < role_indent_threshold THEN 1 ELSE 0
        chord == IF text_type = "chord_line" /\ element.font_size < text_font_size_min THEN 1 ELSE 0
    IN  ClampConfidence(confidence + title + role + chord)

Better_OrEqual(confidence, best_confidence) == confidence >= best_confidence

\* "if confidence > best_confidence"
Better(confidence, best_confidence) == confidence > best_confidence

\* the rule loop of _classify_element from rule k on; best_classification None is "none"
RECURSIVE BestClassification(_, _, _)
BestClassification(element, k, best) ==
    IF k > Len(classification_rules) THEN best
    ELSE LET confidence == CalculateRuleConfidence(element, classification_rules[k]) IN
         BestClassification(element, k + 1,
             IF Better(confidence, best.confidence)
             THEN [text_type |-> classification_rules[k].text_type, confidence |-> confidence]
             ELSE best)

NoStrongClassification_Always(best_confidence) == TRUE

\* "if best_confidence < 0.3"
NoStrongClassification(best_confidence) == best_confidence < MinRuleConfidence

\* ClassifiedText; metadata is <<>> for {} and <<c>> for {'original_confidence': c}
ClassifiedText(element, text_type, confidence, metadata) ==
    [element |-> element, text_type |-> text_type, confidence |-> confidence, metadata |-> metadata]

ClassifyElement(element) ==
    IF EmptyText(Strip(element.text)) THEN ClassifiedText(element, "unknown", 0, <<>>)
    ELSE LET found == BestClassification(element, 1, [text_type |-> "none", confidence |-> 0])
             best == IF NoStrongClassification(found.confidence)
                     THEN [text_type |-> "verse_text", confidence |-> DefaultConfidence]
                     ELSE found
         IN  ClassifiedText(element, best.text_type,
                            ApplyPositionAdjustments(element, best.text_type, best.confidence),
                            << best.confidence >>)

\* the two contextual corrections of _post_process_classifications on one element
PostProcessElement(ce) ==
    LET text == Strip(ce.element.text)
        role == IF ce.text_type = "verse_text"
                   /\ \E r \in 1..Len(role_markers) : StartsWith(text, role_markers[r])
                THEN [ce EXCEPT !.text_type = "role_marker", !.confidence = RoleReclassConfidence]
                ELSE ce
    IN  IF /\ role.text_type = "verse_text"
           /\ role.element.is_pink
           /\ Len(text) < ChordReclassMaxLen
           /\ ChordCharsMatch(text)
        THEN [role EXCEPT !.text_type = "chord_line", !.confidence = ChordReclassConfidence]
        ELSE role

\* stable insertion of e with key (y, x) into a list of <<y, x, element>>
InsertByYX(s, e, y, x) ==
    LET before == { k \in 1..Len(s) :
                      \/ s[k][1] < y
                      \/ s[k][1] = y /\ s[k][2] <= x }
        n == Cardinality(before)
    IN  SubSeq(s, 1, n) \o << <<y, x, e>> >> \o SubSeq(s, n + 1, Len(s))

RECURSIVE KeyedByYX(_, _, _, _)
KeyedByYX(s, elements, k, acc) ==
    IF k > Len(s) THEN acc
    ELSE KeyedByYX(s, elements, k + 1, InsertByYX(acc, s[k], elements[k].y, elements[k].x))

\* sorted(s, key=(y, x) of the element of each entry); elements[k] is the element of s[k]
SortedByYX(s, elements) ==
    LET keyed == KeyedByYX(s, elements, 1, <<>>) IN [k \in 1..Len(s) |-> keyed[k][3]]

\* PDFExtractor._create_text_element: the stripped text with the span's geometry and
\* formatting; None (here <<>>) when nothing is left of the text
CreateTextElement(span) ==
    IF EmptyText(Strip(span.text)) THEN <<>>
    ELSE << [text |-> Strip(span.text), x |-> span.position[1], y |-> span.position[2], font_size |-> span.size,
             is_bold |-> span.bold, is_pink |-> span.pink] >>

\* "if element and element.text.strip()"
KeepElement(created) == created # <<>> /\ ~EmptyText(Strip(created[1].text))

\* the span loop of _extract_page_elements from span k on
RECURSIVE ExtractPageElements(_, _)
ExtractPageElements(spans, k) ==
    IF k > Len(spans) THEN <<>>
    ELSE LET created == CreateTextElement(spans[k]) IN
         (IF KeepElement(created) THEN created ELSE <<>>) \o ExtractPageElements(spans, k + 1)

\* encoding_fixes of the profile applied to one character
FixChar(c) == IF c = "e-grave" THEN "c-caron" ELSE IF c = "E-grave" THEN "C-caron" ELSE c

\* ' '.join(title.split())
RECURSIVE CollapseSpaces(_)
CollapseSpaces(s) ==
    LET t == LStrip(s) IN
    IF t = <<>> THEN <<>>
    ELSE LET word_end == IF \E k \in 1..Len(t) : t[k] \in Whitespace
                         THEN MinOf({ k \in 1..Len(t) : t[k] \in Whitespace }) - 1
                         ELSE Len(t)
             rest == CollapseSpaces(DropFirst(t, word_end))
         IN  SubSeq(t, 1, word_end) \o (IF rest = <<>> THEN <<>> ELSE <<" ">> \o rest)

\* CroatianConfig.normalize_title
NormalizeTitle(title) == Strip(CollapseSpaces([k \in 1..Len(title) |-> FixChar(title[k])]))

Untitled == <<"U", "n", "t", "i", "t", "l", "e", "d", " ", "S", "o", "n", "g">>

\* texts of the spans
SpanTexts ==
    { <<>>,
      <<" ">>,
      <<"K", ".">>,
      <<"K", ".", " ", "a", "b">>,
      <<"K", ".", "a", "b">>,
      <<" ", "A", "B">>,
      <<"a", "b">>,
      <<"x", "y">>,
      <<"C", ":", "x">>,
      <<"C", ":", "k", "a", "p", "o">>,
      <<"K", ".", " ", "K", "A", "P", "O">>,
      <<"n", "a", " ", "X", ".", "p", "o", "l", "j", "u">>,
      <<"K", ".", " ", "A", "B", "C", "D", "E", "F", "G", "H", "I">> }

SpanSizes == { 9, 12, 14 }
\* <<x, y>> of a span: indented above the title line, or at the margin below it
SpanPositions == { <<60, 50>>, <<20, 150>> }

Spans ==
    [text : SpanTexts, position : SpanPositions, size : SpanSizes, bold : BOOLEAN, pink : BOOLEAN]

ClassIdle ==
    /\ k_spans = <<>>
    /\ k_elements = <<>>
    /\ k_sorted = <<>>
    /\ k_classified = <<>>
    /\ k_title = <<>>
    /\ k_kapodaster = <<>>
    /\ k_comments = <<>>
    /\ k_document = <<>>
    /\ k_pc = "idle"

InitClass ==
    /\ k_spans \in UNION { [1..n -> Spans] : n \in 1..MaxSpans }
    /\ k_elements = <<>>
    /\ k_sorted = <<>>
    /\ k_classified = <<>>
    /\ k_title = <<>>
    /\ k_kapodaster = <<>>
    /\ k_comments = <<>>
    /\ k_document = <<>>
    /\ k_pc = "page"

\* PDFExtractor.extract_text_elements on a one-page document
ExtractTextElements ==
    /\ k_pc = "page"
    /\ k_elements' = ExtractPageElements(k_spans, 1)
    /\ k_pc' = "extracted"
    /\ UNCHANGED << k_spans, k_sorted, k_classified, k_title, k_kapodaster, k_comments, k_document >>
    /\ UNCHANGED nonClassVars

\* classify, lines 135-141
SortElements ==
    /\ k_pc = "extracted"
    /\ k_sorted' = SortedByYX(k_elements, k_elements)
    /\ k_pc' = "classifying"
    /\ UNCHANGED << k_spans, k_elements, k_classified, k_title, k_kapodaster, k_comments, k_document >>
    /\ UNCHANGED nonClassVars

\* classify, lines 143-153: one turn of the element loop
ClassifyNext ==
    /\ k_pc = "classifying"
    /\ Len(k_classified) < Len(k_sorted)
    /\ LET element == k_sorted[Len(k_classified) + 1]
           classification == ClassifyElement(element)
           is_title == classification.text_type = "title" /\ k_title = <<>>
           is_kapodaster == /\ ~is_title
                            /\ classification.text_type = "kapodaster"
                            /\ k_kapodaster = <<>>
           is_comment == /\ ~is_title
                         /\ ~is_kapodaster
                         /\ classification.text_type \in { "comment", "inline_comment" }
       IN  /\ k_classified' = Append(k_classified, classification)
           /\ k_title' = IF is_title THEN NormalizeTitle(element.text) ELSE k_title
           /\ k_kapodaster' = IF is_kapodaster THEN Strip(element.text) ELSE k_kapodaster
           /\ k_comments' = IF is_comment THEN Append(k_comments, Strip(element.text))
                            ELSE k_comments
    /\ UNCHANGED << k_spans, k_elements, k_sorted, k_document, k_pc >>
    /\ UNCHANGED nonClassVars

\* classify, lines 155-168: the post-pass and the returned document
PostProcessClassifications ==
    /\ k_pc = "classifying"
    /\ Len(k_classified) = Len(k_sorted)
    /\ k_classified' = LET sorted_elements ==
                               SortedByYX(k_classified,
                                          [n \in 1..Len(k_classified) |-> k_classified[n].element])
                       IN  [n \in 1..Len(sorted_elements) |-> PostProcessElement(sorted_elements[n])]
    /\ k_document' = << [title |-> IF k_title = <<>> THEN Untitled ELSE k_title,
                         text_elements |-> k_classified',
                         comments |-> k_comments,
                         kapodaster |-> k_kapodaster] >>
    /\ k_pc' = "classified"
    /\ UNCHANGED << k_spans, k_elements, k_sorted, k_title, k_kapodaster, k_comments >>
    /\ UNCHANGED nonClassVars

(***************************************************************************)
(* File-specific overrides: CustomizationManager and the hook points of    *)
(* ImprovedUniversalParser.parse                                           *)
(***************************************************************************)
\* registered overrides
MaxOverrides == 3

\* continuation lines of the document
MaxHookLines == 2

\* the override classes of customizations/
Overrides == { "hr002", "sl002" }

\* HR002LitanijeCustomization.applies_to_file and SL002LitanijeCustomization.applies_to_file
AppliesToFile(override, filename) ==
    IF override = "hr002"
    THEN \/ Contains(filename, <<"H", "R", " ", "-", " ", "0", "0", "2">>)
         \/ Contains(FoldCase(filename), <<"h", "r", " ", "-", " ", "0", "0", "2">>)
    ELSE \/ Contains(filename, <<"S", "L", " ", "-", " ", "0", "0", "2">>)
         \/ Contains(FoldCase(filename), <<"s", "l", " ", "-", " ", "0", "0", "2">>)

GetCustomizationFrom_Last(customizations, filename, k) ==
    IF \E j \in k..Len(customizations) : AppliesToFile(customizations[j], filename)
    THEN customizations[MaxOf({ j \in k..Len(customizations) :
                                  AppliesToFile(customizations[j], filename) })]
    ELSE "none"

\* the loop of get_customization_for_file from entry k on; None is "none"
RECURSIVE GetCustomizationFrom(_, _, _)
GetCustomizationFrom(customizations, filename, k) ==
    IF k > Len(customizations) THEN "none"
    ELSE IF AppliesToFile(customizations[k], filename) THEN customizations[k]
    ELSE GetCustomizationFrom(customizations, filename, k + 1)

GetCustomizationForFile(customizations, filename) == GetCustomizationFrom(customizations, filename, 1)

\* Path(pdf_path).name of the documents
HookFiles ==
    { <<"H", "R", " ", "-", " ", "0", "0", "2", ".", "p", "d", "f">>,
      <<"h", "r", " ", "-", " ", "0", "0", "2", ".", "p", "d", "f">>,
      <<"S", "L", " ", "-", " ", "0", "0", "2", ".", "p", "d", "f">>,
      <<"H", "R", " ", "-", " ", "0", "0", "1", ".", "p", "d", "f">>,
      <<"S", "L", " ", "-", " ", "0", "0", "2", " ", "H", "R", " ", "-", " ", "0", "0", "2", ".", "p", "d", "f">> }

HookIdle ==
    /\ h_customizations = <<>>
    /\ h_filename = <<>>
    /\ h_customization = "none"
    /\ h_lines = 0
    /\ h_trace = <<>>
    /\ h_pc = "idle"

InitHook ==
    /\ h_customizations = <<>>
    /\ h_filename \in HookFiles
    /\ h_customization = "none"
    /\ h_lines \in 0..MaxHookLines
    /\ h_trace = <<>>
    /\ h_pc = "import"

\* CustomizationManager.register_customization, called when a customization module is
\* imported
RegisterCustomization ==
    /\ h_pc = "import"
    /\ Len(h_customizations) < MaxOverrides
    /\ \E c \in Overrides : h_customizations' = Append(h_customizations, c)
    /\ UNCHANGED << h_filename, h_customization, h_lines, h_trace, h_pc >>
    /\ UNCHANGED nonHookVars

\* parse, lines 70-76
LookupCustomization ==
    /\ h_pc = "import"
    /\ h_customization' = GetCustomizationForFile(h_customizations, h_filename)
    /\ h_pc' = "extract"
    /\ UNCHANGED << h_customizations, h_filename, h_lines, h_trace >>
    /\ UNCHANGED nonHookVars

\* parse, line 79: extract puts every line into its category list (extract, lines
\* 151-232) and returns the span data
ExtractSpanData ==
    /\ h_pc = "extract"
    /\ h_trace' = Append(h_trace, "lines_classified")
    /\ h_pc' = "rewrite"
    /\ UNCHANGED << h_customizations, h_filename, h_customization, h_lines >>
    /\ UNCHANGED nonHookVars

\* parse, lines 82-84
CustomizeSpanData ==
    /\ h_pc = "rewrite"
    /\ h_trace' = IF h_customization # "none"
                  THEN h_trace \o << "customize_span_data", "customize_text_lines" >>
                  ELSE h_trace
    /\ h_pc' = "verses"
    /\ UNCHANGED << h_customizations, h_filename, h_customization, h_lines >>
    /\ UNCHANGED nonHookVars

\* _parse_verses_with_span_positioning, lines 431-457: one continuation line
BuildContinuationLine ==
    /\ h_pc = "verses"
    /\ h_lines > 0
    /\ h_trace' = IF h_customization # "none"
                  THEN h_trace \o << "customize_verse_text", "verse_line" >>
                  ELSE Append(h_trace, "verse_line")
    /\ h_lines' = h_lines - 1
    /\ UNCHANGED << h_customizations, h_filename, h_customization, h_pc >>
    /\ UNCHANGED nonHookVars

\* parse, line 87: _parse_with_span_positioning returns the Song
AssembleSong ==
    /\ h_pc = "verses"
    /\ h_lines = 0
    /\ h_trace' = Append(h_trace, "song_assembled")
    /\ h_pc' = "language"
    /\ UNCHANGED << h_customizations, h_filename, h_customization, h_lines >>
    /\ UNCHANGED nonHookVars

\* parse, lines 90-98: the language customizations, then customize_song, then return
FinishSong ==
    /\ h_pc = "language"
    /\ h_trace' = IF h_customization # "none"
                  THEN h_trace \o << "apply_customizations", "customize_song" >>
                  ELSE Append(h_trace, "apply_customizations")
    /\ h_pc' = "returned"
    /\ UNCHANGED << h_customizations, h_filename, h_customization, h_lines >>
    /\ UNCHANGED nonHookVars

NextHook ==
    \/ RegisterCustomization
    \/ LookupCustomization
    \/ ExtractSpanData
    \/ CustomizeSpanData
    \/ BuildContinuationLine
    \/ AssembleSong
    \/ FinishSong

(***************************************************************************)
(* Two document pipelines on one ImprovedUniversalParser: the parser's     *)
(* ItalianCustomizations object, and with it current_file, is shared.      *)
(***************************************************************************)
Workers == {"worker1", "worker2"}

\* lyric lines without chords: the text alone decides what the '032' fix does
SharedLines == { [text |-> text, chords |-> <<>>] : text \in ItalianTexts }

SharedVerses ==
    UNION { { [role |-> role, lines |-> lines, verse_type |-> "verse"] :
                 lines \in [1..n -> SharedLines], role \in ItalianRoles } :
            n \in 1..MaxVerseLines }

SharedIdle ==
    /\ sh_current_file = <<>>
    /\ sh_filename = <<>>
    /\ sh_verse = <<>>
    /\ sh_song = <<>>
    /\ sh_pc = <<>>

\* ItalianCustomizations.__init__, line 20: self.current_file = ""; each worker
\* holds the verses of its own document, built by _parse_with_span_positioning
InitShared ==
    /\ sh_current_file = <<>>
    /\ sh_filename \in [Workers -> ItalianFiles]
    /\ sh_verse \in [Workers -> SharedVerses]
    /\ sh_song = [w \in Workers |-> <<>>]
    /\ sh_pc = [w \in Workers |-> "parsed"]

\* parse(), line 93: self.customizations.set_current_file(filename)
SetCurrentFile(w) ==
    /\ sh_pc[w] = "parsed"
    /\ sh_current_file' = sh_filename[w]
    /\ sh_pc' = [sh_pc EXCEPT ![w] = "file_set"]
    /\ UNCHANGED << sh_filename, sh_verse, sh_song >>
    /\ UNCHANGED nonSharedVars

\* parse(), line 94: song.verses = self.customizations.apply_customizations(...);
\* _should_apply_chord_on_same_line_fix reads self.current_file as it is then
ApplySharedCustomizations(w) ==
    /\ sh_pc[w] = "file_set"
    /\ sh_song' = [sh_song EXCEPT ![w] = CustomizeVerse(sh_verse[w], sh_current_file)]
    /\ sh_pc' = [sh_pc EXCEPT ![w] = "done"]
    /\ UNCHANGED << sh_current_file, sh_filename, sh_verse >>
    /\ UNCHANGED nonSharedVars

NextShared ==
    \/ \E w \in Workers : SetCurrentFile(w)
    \/ \E w \in Workers : ApplySharedCustomizations(w)

(***************************************************************************)
(* Batch driver (universal_parser_cli.py, parse_folder).  A document       *)
(* either parses and exports, or parser.parse raises (a missing or         *)
(* unreadable PDF: improved_pdf_extractor.py lines 68-69), or an export    *)
(* raises.                                                                 *)
(***************************************************************************)
\* PDFs in the input directory
MaxPdfs == 3

Outcomes == {"ok", "parse_raises", "export_raises"}

\* the try block of the loop body completes without an exception
Completes(outcome) == outcome = "ok"

\* line 181: return 0 if failed == 0 else 1
ExitCode_AlwaysZero(failed) == 0
ExitCode(failed) == IF failed = 0 THEN 0 ELSE 1

NoExit == 0 - 1

BatchIdle ==
    /\ b_is_dir = FALSE
    /\ b_pdf_files = <<>>
    /\ b_next = 0
    /\ b_attempted = {}
    /\ b_processed = 0
    /\ b_failed = 0
    /\ b_exit = NoExit
    /\ b_pc = "idle"

\* the input path and what each of its PDFs will do when it is processed
InitBatch ==
    /\ b_is_dir \in BOOLEAN
    /\ \E n \in 0..MaxPdfs : b_pdf_files \in [1..n -> Outcomes]
    /\ ~b_is_dir => b_pdf_files = <<>>
    /\ b_next = 0
    /\ b_attempted = {}
    /\ b_processed = 0
    /\ b_failed = 0
    /\ b_exit = NoExit
    /\ b_pc = "start"

\* lines 123-146: the two early returns, then processed = 0, failed = 0
FindPdfFiles ==
    /\ b_pc = "start"
    /\ IF ~b_is_dir \/ b_pdf_files = <<>>
       THEN /\ b_exit' = 1
            /\ b_pc' = "returned"
            /\ UNCHANGED b_next
       ELSE /\ b_next' = 1
            /\ b_pc' = "loop"
            /\ UNCHANGED b_exit
    /\ b_processed' = 0
    /\ b_failed' = 0
    /\ UNCHANGED << b_is_dir, b_pdf_files, b_attempted >>
    /\ UNCHANGED nonBatchVars

\* lines 148-172: one iteration of the for loop, try and except together
ProcessPdfFile ==
    /\ b_pc = "loop"
    /\ b_next <= Len(b_pdf_files)
    /\ b_attempted' = b_attempted \cup {b_next}
    /\ IF Completes(b_pdf_files[b_next])
       THEN b_processed' = b_processed + 1 /\ UNCHANGED b_failed
       ELSE b_failed' = b_failed + 1 /\ UNCHANGED b_processed
    /\ b_next' = b_next + 1
    /\ UNCHANGED << b_is_dir, b_pdf_files, b_exit, b_pc >>
    /\ UNCHANGED nonBatchVars

\* lines 174-181: the summary and the return value
ReturnFromBatch ==
    /\ b_pc = "loop"
    /\ b_next > Len(b_pdf_files)
    /\ b_exit' = ExitCode(b_failed)
    /\ b_pc' = "returned"
    /\ UNCHANGED << b_is_dir, b_pdf_files, b_next, b_attempted, b_processed, b_failed >>
    /\ UNCHANGED nonBatchVars

NextBatch ==
    \/ FindPdfFiles
    \/ ProcessPdfFile
    \/ ReturnFromBatch

(***************************************************************************)
(* One Italian chord written in two spellings, through the extractor's     *)
(* normaliser and the customization's _customize_chord.                    *)
(***************************************************************************)
Accidentals == { <<>>, <<"#">>, <<"b">> }

MinorMarkers == { <<>>, <<"m">> }

Extensions == { <<>> } \cup number_extensions \cup complex_extensions

\* the parts written one after the other: 'Rem9'
MergedSpelling(parts) == parts.root \o parts.accidental \o parts.minor \o parts.extension

\* the root with its accidental, the minor marker and the extension, one space
\* between those that are present: 'Re m 9'
SpacedSpelling(parts) ==
    parts.root \o parts.accidental
        \o (IF parts.minor = <<>> THEN <<>> ELSE <<" ">> \o parts.minor)
        \o (IF parts.extension = <<>> THEN <<>> ELSE <<" ">> \o parts.extension)

ChordIdle ==
    /\ ch_parts = <<>>
    /\ ch_merged = <<>>
    /\ ch_spaced = <<>>
    /\ ch_again = <<>>
    /\ ch_pc = "idle"

\* the two spellings as chord units of a chord span
InitChord ==
    /\ ch_parts \in [root : italian_roots, accidental : Accidentals,
                     minor : MinorMarkers, extension : Extensions]
    /\ ch_merged = MergedSpelling(ch_parts)
    /\ ch_spaced = SpacedSpelling(ch_parts)
    /\ ch_again = <<>>
    /\ ch_pc = "span"

\* _find_italian_chord_positions_in_span, line 1237: the unit is normalised
ExtractChordUnit ==
    /\ ch_pc = "span"
    /\ ch_merged' = NormalizeMergedItalianChordInExtractor(ch_merged)
    /\ ch_spaced' = NormalizeMergedItalianChordInExtractor(ch_spaced)
    /\ ch_pc' = "extracted"
    /\ UNCHANGED << ch_parts, ch_again >>
    /\ UNCHANGED nonChordVars

\* apply_customizations -> _customize_line -> _customize_chord on the Song's chord
CustomizeSongChord ==
    /\ ch_pc = "extracted"
    /\ ch_merged' = CustomizeChord(Chord(ch_merged, 0, 0, 0)).chord
    /\ ch_spaced' = CustomizeChord(Chord(ch_spaced, 0, 0, 0)).chord
    /\ ch_pc' = "song"
    /\ UNCHANGED << ch_parts, ch_again >>
    /\ UNCHANGED nonChordVars

\* the canonical chord text canonicalized once more
CustomizeCanonicalChord ==
    /\ ch_pc = "song"
    /\ ch_again' = CustomizeChord(Chord(NormalizeMergedItalianChordInExtractor(ch_merged),
                                        0, 0, 0)).chord
    /\ ch_pc' = "again"
    /\ UNCHANGED << ch_parts, ch_merged, ch_spaced >>
    /\ UNCHANGED nonChordVars

NextChord ==
    \/ ExtractChordUnit
    \/ CustomizeSongChord
    \/ CustomizeCanonicalChord

(***************************************************************************)
(* Chord tokens of one chord span (find_chord_positions_in_span), Spanish  *)
(* and Croatian profiles.                                                  *)
(***************************************************************************)
\* chords of one chord span
MaxSpanChords == 3

\* the alternation (?:DO|Do|Re|Mi|Fa|Sol|La|Si), in its order
spanish_roots ==
    << <<"D", "O">>, <<"D", "o">>, <<"R", "e">>, <<"M", "i">>, <<"F", "a">>,
       <<"S", "o", "l">>, <<"L", "a">>, <<"S", "i">> >>

\* (\d+|maj7|dim|aum)
spanish_extensions == << <<"m", "a", "j", "7">>, <<"d", "i", "m">>, <<"a", "u", "m">> >>

\* s[k:], k 0-based
From0(s, k) == SubSeq(s, k + 1, Len(s))

\* length of the longest run of characters of chars at the start of s
RECURSIVE RunLength(_, _)
RunLength(s, chars) ==
    IF s = <<>> \/ Head(s) \notin chars THEN 0 ELSE 1 + RunLength(Tail(s), chars)

\* the match of spanish_chord_pattern that starts at the 0-based offset k of text,
\* in a tuple, or the empty tuple
MatchSpanishChordAt(text, k) ==
    LET rest == From0(text, k)
        roots == { r \in 1..Len(spanish_roots) : StartsWith(rest, spanish_roots[r]) }
    IN  IF roots = {} THEN <<>>
        ELSE LET root == spanish_roots[MinOf(roots)]
                 after_root == From0(rest, Len(root))
                 accidental == IF after_root # <<>> /\ Head(after_root) \in {"#", "b"} THEN 1 ELSE 0
                 after_accidental == From0(after_root, accidental)
                 dash == IF after_accidental # <<>> /\ Head(after_accidental) \in {"-", "en-dash"}
                         THEN 1 ELSE 0
                 base_len == Len(root) + accidental + dash
                 after_base == From0(rest, base_len)
                 spaces == RunLength(after_base, {" "})
                 after_spaces == From0(after_base, spaces)
                 digits == RunLength(after_spaces, Digits)
                 words == { e \in 1..Len(spanish_extensions) :
                               StartsWith(after_spaces, spanish_extensions[e]) }
                 extension == IF digits > 0 THEN SubSeq(after_spaces, 1, digits)
                              ELSE IF words # {} THEN spanish_extensions[MinOf(words)]
                              ELSE <<>>
             IN  << [start |-> k, base_chord |-> SubSeq(rest, 1, base_len),
                     extension |-> extension,
                     end |-> k + base_len + spaces + Len(extension)] >>

\* re.finditer(spanish_chord_pattern, text) from the 0-based offset k on, each match
\* turned into its (full_chord, pixel_pos); the base chord of a match always passes
\* _looks_like_spanish_chord; the pixel position is rounded down to whole pixels
RECURSIVE SpanishChordMatchesFrom(_, _, _, _)
SpanishChordMatchesFrom(text, k, chord_span_start, chord_span_width) ==
    IF k >= Len(text) THEN <<>>
    ELSE LET found == MatchSpanishChordAt(text, k) IN
         IF found = <<>>
         THEN SpanishChordMatchesFrom(text, k + 1, chord_span_start, chord_span_width)
         ELSE LET match == found[1]
                  full_chord == IF match.extension # <<>>
                                THEN match.base_chord \o <<" ">> \o match.extension
                                ELSE match.base_chord
              IN  << [chord |-> full_chord,
                      pixel_x |-> chord_span_start
                                     + (match.start * chord_span_width) \div Len(text)] >>
                  \o SpanishChordMatchesFrom(text, match.end, chord_span_start, chord_span_width)

\* line 1022: if '|' in text
HasChordChain_Never(text) == FALSE
HasChordChain(text) == Contains(text, <<"|">>)

\* _find_spanish_chord_positions; the test spans without a chain hold a chord root,
\* so the word-by-word fallback for spans without any match is not reached
FindSpanishChordPositions(chord_span_text, chord_span_start, chord_span_width) ==
    LET text == Strip(chord_span_text) IN
    IF text = <<>> THEN <<>>
    ELSE IF HasChordChain(text)
         THEN << [chord |-> text, pixel_x |-> chord_span_start] >>
         ELSE SpanishChordMatchesFrom(text, 0, chord_span_start, chord_span_width)

\* find_chord_positions_in_span, lines 969-975: the Spanish profile has its own tokenizer
FindChordPositionsForLanguage(language_code, chord_span_text, chord_span_start, chord_span_width) ==
    IF language_code = "es"
    THEN FindSpanishChordPositions(chord_span_text, chord_span_start, chord_span_width)
    ELSE FindChordPositionsInSpan(chord_span_text, chord_span_start, chord_span_width)

SpanishChordWords == { <<"D", "o">>, <<"M", "i">>, <<"F", "a", "#">>, <<"L", "a", "-", " ", "6">> }

ChordSeparators == { <<" ">>, <<" ", "|">> }

\* chord words joined by the separators
RECURSIVE JoinChordWords(_, _)
JoinChordWords(words, separators) ==
    IF Len(words) = 1 THEN words[1]
    ELSE words[1] \o separators[1] \o JoinChordWords(Tail(words), Tail(separators))

SpanishSpanTexts ==
    UNION { { JoinChordWords(words, separators) :
                 words \in [1..n -> SpanishChordWords], separators \in [1..(n - 1) -> ChordSeparators] } :
            n \in 1..MaxSpanChords }

SpanishIdle ==
    /\ es_language_code = ""
    /\ es_chord_span_text = <<>>
    /\ es_chord_span_start = 0
    /\ es_chord_span_width = 0
    /\ es_chord_positions = <<>>
    /\ es_pc = "idle"

\* a chord line of span_data, as the PDF gives it or with a leading blank
InitSpanish ==
    /\ es_language_code \in {"es", "hr"}
    /\ \E text \in SpanishSpanTexts : es_chord_span_text \in { text, <<" ">> \o text }
    /\ es_chord_span_start \in {0, SpanStart}
    /\ es_chord_span_width \in SpanWidths
    /\ es_chord_positions = <<>>
    /\ es_pc = "chord_line"

\* _find_chords_with_span_positioning, lines 510-512
TokenizeChordSpan ==
    /\ es_pc = "chord_line"
    /\ es_chord_positions' = FindChordPositionsForLanguage(es_language_code, es_chord_span_text,
                                  es_chord_span_start, es_chord_span_width)
    /\ es_pc' = "tokenized"
    /\ UNCHANGED << es_language_code, es_chord_span_text, es_chord_span_start, es_chord_span_width >>
    /\ UNCHANGED nonSpanishVars

NextSpanish == TokenizeChordSpan

(***************************************************************************)
(* Extracted text runs through extract()'s category lists and the SL-002   *)
(* raw-line rewrites (customize_span_data, customize_text_lines).  Every   *)
(* line carries, as bookkeeping only, the set of runs whose text it holds. *)
(***************************************************************************)
\* text runs of one document
MaxTextRuns == 3

QuoteMark == <<"\"">>

RunTexts == { <<"*">>, <<"*", "*">>, QuoteMark, <<"a">> }

\* y of the two lines of the page, in sub-pixel units
RunYs == { 0, 4 * Px }

\* a line of span_data built from one run
RunLine(text, x_start, y, runs) ==
    [text |-> text, x_start |-> x_start, x_end |-> x_start + RunWidth, y |-> y, runs |-> runs]

AllRuns(ls) == UNION { ls[k].runs : k \in 1..Len(ls) }

RECURSIVE FlattenGroups(_)
FlattenGroups(gs) == IF gs = <<>> THEN <<>> ELSE Head(gs) \o FlattenGroups(Tail(gs))

\* _check_for_asterisk_comment_in_group: the comment in a tuple, << >> for None
CheckForAsteriskCommentInGroup(group_lines, y_pos) ==
    LET sorted_lines == SortedByX(group_lines)
        asterisk_markers ==
            SelectSeq(sorted_lines, LAMBDA l : Strip(l.text) \in { <<"*">>, <<"*", "*">> })
        text_content ==
            SelectSeq(sorted_lines,
                      LAMBDA l : /\ Strip(l.text) \notin { <<"*">>, <<"*", "*">> }
                                 /\ Strip(l.text) # <<>>
                                 /\ ~StartsWith(Strip(l.text), QuoteMark))
    IN  IF asterisk_markers # <<>> /\ text_content # <<>>
        THEN LET first_asterisk == asterisk_markers[1]
                 x_end == MaxOf({ sorted_lines[k].x_end : k \in 1..Len(sorted_lines) })
             IN  << [text |-> Strip(first_asterisk.text) \o <<" ", " ">> \o JoinTexts(text_content),
                     x_start |-> first_asterisk.x_start, x_end |-> x_end, y |-> y_pos,
                     runs |-> first_asterisk.runs \cup AllRuns(text_content)] >>
        ELSE <<>>

\* _extract_asterisk_comments_from_text_lines
ExtractAsteriskCommentsFromTextLines(lines) ==
    LET y_groups == GroupByY(lines, ChordYTolerancePx * Px, <<>>)
        comment_of == [g \in 1..Len(y_groups) |->
                          CheckForAsteriskCommentInGroup(y_groups[g].members, y_groups[g].key)]
    IN  [comment_lines |-> FlattenGroups(comment_of),
         remaining_text_lines |->
             FlattenGroups([g \in 1..Len(y_groups) |->
                               IF comment_of[g] # <<>> THEN <<>> ELSE y_groups[g].members])]

\* '"' repeated num_quotes times with 7 blanks between
RECURSIVE QuotesStr(_)
QuotesStr(num_quotes) ==
    IF num_quotes = 1 THEN QuoteMark ELSE QuoteMark \o Spaces(7) \o QuotesStr(num_quotes - 1)

\* _merge_quote_marks_at_same_y: the merged line in a tuple, << >> for None
MergeQuoteMarksAtSameY(lines, y_pos) ==
    LET sorted_lines == SortedByX(lines)
        quote_marks == SelectSeq(sorted_lines, LAMBDA l : Strip(l.text) = QuoteMark)
        text_content == SelectSeq(sorted_lines, LAMBDA l : Strip(l.text) # QuoteMark)
    IN  IF quote_marks # <<>> /\ text_content # <<>>
        THEN LET first_quote == quote_marks[1]
                 x_end == MaxOf({ sorted_lines[k].x_end : k \in 1..Len(sorted_lines) })
                 combined_text ==
                     IF Len(quote_marks) > 1
                     THEN QuotesStr(Len(quote_marks)) \o Spaces(6) \o JoinTexts(text_content)
                     ELSE QuoteMark \o Spaces(7) \o JoinTexts(text_content)
             IN  << [text |-> combined_text, x_start |-> first_quote.x_start, x_end |-> x_end,
                     y |-> y_pos, runs |-> AllRuns(sorted_lines)] >>
        ELSE <<>>

\* _combine_quote_marks_by_y
CombineQuoteMarksByY(lines) ==
    LET y_groups == GroupByY(lines, ChordYTolerancePx * Px, <<>>)
    IN  FlattenGroups([g \in 1..Len(y_groups) |->
            IF Len(y_groups[g].members) = 1 THEN y_groups[g].members
            ELSE LET combined_line == MergeQuoteMarksAtSameY(y_groups[g].members, y_groups[g].key)
                 IN  IF combined_line # <<>> THEN combined_line ELSE y_groups[g].members])

RunsIdle ==
    /\ r_runs = <<>>
    /\ r_text_lines = <<>>
    /\ r_comment_lines = <<>>
    /\ r_pc = "idle"

\* the non-blank lines of the page in block order, one after the other from left to
\* right, each with the category the if/elif chain of extract() gives it
InitRuns ==
    /\ \E n \in 1..MaxTextRuns :
          r_runs \in [1..n -> [text : RunTexts, y : RunYs, category : {"text", "comment"}]]
    /\ r_text_lines = <<>>
    /\ r_comment_lines = <<>>
    /\ r_pc = "page"

\* the lines of one category, in page order
RECURSIVE CategoryLines(_, _, _)
CategoryLines(runs, k, category) ==
    IF k > Len(runs) THEN <<>>
    ELSE (IF runs[k].category = category
          THEN << RunLine(runs[k].text, k * RunPitch, runs[k].y, {k}) >> ELSE <<>>)
         \o CategoryLines(runs, k + 1, category)

\* extract(), lines 151-252: each line is appended to the list of its category
ExtractRuns ==
    /\ r_pc = "page"
    /\ r_text_lines' = CategoryLines(r_runs, 1, "text")
    /\ r_comment_lines' = CategoryLines(r_runs, 1, "comment")
    /\ r_pc' = "extracted"
    /\ UNCHANGED r_runs
    /\ UNCHANGED nonRunsVars

\* parse(), lines 82-84, with the SL-002 override: customize_span_data, then
\* customize_text_lines on the text lines it left
RewriteRawLines ==
    /\ r_pc = "extracted"
    /\ LET asterisk_comments == ExtractAsteriskCommentsFromTextLines(r_text_lines) IN
          /\ r_comment_lines' = r_comment_lines \o asterisk_comments.comment_lines
          /\ r_text_lines' = CombineQuoteMarksByY(asterisk_comments.remaining_text_lines)
    /\ r_pc' = "rewritten"
    /\ UNCHANGED r_runs
    /\ UNCHANGED nonRunsVars

NextRuns ==
    \/ ExtractRuns
    \/ RewriteRawLines

(***************************************************************************)
(* ChordPro text of one VerseLine: _position_chords_in_lyrics of the       *)
(* parser's export_chordpro and _build_line_with_chords of the exporter.   *)
(***************************************************************************)
\* '[' + chord + ']'
Bracketed(chord) == <<"[">> \o chord \o <<"]">>

\* '[' + ']['.join(chord_names) + ']'
RECURSIVE BracketedAll(_)
BracketedAll(chords) ==
    IF chords = <<>> THEN <<>> ELSE Bracketed(Head(chords).chord) \o BracketedAll(Tail(chords))

\* sorted(chords, key=lambda x: x.position) of both renderers
SortedChords_AsGiven(chords) == chords
SortedChords(chords) == SortedByPosition(chords)

\* the for loop of _position_chords_in_lyrics and the text added after it
RECURSIVE PositionChordsFrom(_, _, _, _)
PositionChordsFrom(sorted_chords, lyric_text, lyric_pos, result) ==
    IF sorted_chords = <<>>
    THEN (IF lyric_pos < Len(lyric_text) THEN result \o From0(lyric_text, lyric_pos) ELSE result)
    ELSE LET chord == Head(sorted_chords)
             chord_pos == chord.position
         IN  IF chord_pos >= Len(lyric_text)
             THEN PositionChordsFrom(Tail(sorted_chords), lyric_text, Len(lyric_text),
                      (IF lyric_pos < Len(lyric_text)
                       THEN result \o From0(lyric_text, lyric_pos) ELSE result)
                          \o Bracketed(chord.chord))
             ELSE IF chord_pos > lyric_pos
             THEN PositionChordsFrom(Tail(sorted_chords), lyric_text, chord_pos,
                      result \o SubSeq(lyric_text, lyric_pos + 1, chord_pos)
                             \o Bracketed(chord.chord))
             ELSE PositionChordsFrom(Tail(sorted_chords), lyric_text, lyric_pos,
                      result \o Bracketed(chord.chord))

\* ImprovedUniversalParser._position_chords_in_lyrics
PositionChordsInLyrics(chords, lyric_text) ==
    IF chords = <<>> \/ Strip(lyric_text) = <<>>
    THEN (IF chords # <<>> THEN BracketedAll(chords) ELSE lyric_text)
    ELSE PositionChordsFrom(SortedChords(chords), lyric_text, 0, <<>>)

\* ChordProExporter._format_chord, chord_bracket_style 'square' as every profile sets it
FormatChord(chord) == IF chord = <<>> THEN <<>> ELSE Bracketed(chord)

\* the for loop of _build_line_with_chords and the text added after it; a slice
\* that starts beyond the end of the text is empty
RECURSIVE BuildLineFrom(_, _, _, _)
BuildLineFrom(sorted_chords, text, text_pos, result) ==
    IF sorted_chords = <<>>
    THEN (IF text_pos < Len(text) THEN result \o From0(text, text_pos) ELSE result)
    ELSE LET chord == Head(sorted_chords)
             chord_pos == chord.position
         IN  IF chord_pos > text_pos
             THEN BuildLineFrom(Tail(sorted_chords), text, chord_pos,
                      result \o SubSeq(text, text_pos + 1, MinOf({chord_pos, Len(text)}))
                             \o FormatChord(chord.chord))
             ELSE BuildLineFrom(Tail(sorted_chords), text, text_pos,
                      result \o FormatChord(chord.chord))

\* ChordProExporter._build_line_with_chords
BuildLineWithChords(line) ==
    IF line.chords = <<>> THEN line.text
    ELSE BuildLineFrom(SortedChords(line.chords), line.text, 0, <<>>)

\* lyric texts of verse lines: never blank (a VerseLine is built only "if clean_text")
LyricTexts == { <<"a", "b">>, <<"a", " ", "b">>, <<" ", "a", "b", "c">> }

ChordNames == { <<"C">>, <<"G", "7">> }

\* chord lists of a line: any order (customizations append moved chords), offsets
\* from 0 to one beyond the end of the text
RenderChordLists(text) ==
    UNION { [1..n -> { Chord(name, position, 0, 0) :
                          name \in ChordNames, position \in 0..(Len(text) + 1) }] :
            n \in 0..MaxLineChords }

RenderIdle ==
    /\ rn_line = <<>>
    /\ rn_parser_text = <<>>
    /\ rn_exporter_text = <<>>
    /\ rn_pc = {}

InitRender ==
    /\ \E text \in LyricTexts :
          \E chords \in RenderChordLists(text) : rn_line = [text |-> text, chords |-> chords]
    /\ rn_parser_text = <<>>
    /\ rn_exporter_text = <<>>
    /\ rn_pc = {"song"}

\* export_chordpro, lines 567-571: a line with chords goes through
\* _position_chords_in_lyrics, a line without is its text
ExportChordProLine ==
    /\ "song" \in rn_pc
    /\ "parser" \notin rn_pc
    /\ rn_parser_text' = IF rn_line.chords # <<>>
                         THEN PositionChordsInLyrics(rn_line.chords, rn_line.text)
                         ELSE rn_line.text
    /\ rn_pc' = rn_pc \cup {"parser"}
    /\ UNCHANGED << rn_line, rn_exporter_text >>
    /\ UNCHANGED nonRenderVars

\* _export_verse_line, lines 172-177: the text of a verse line is not blank, so
\* the line goes through _build_line_with_chords
ExportVerseLine ==
    /\ "song" \in rn_pc
    /\ "exporter" \notin rn_pc
    /\ rn_exporter_text' = IF Strip(rn_line.text) = <<>> THEN <<>>
                           ELSE BuildLineWithChords(rn_line)
    /\ rn_pc' = rn_pc \cup {"exporter"}
    /\ UNCHANGED << rn_line, rn_parser_text >>
    /\ UNCHANGED nonRenderVars

NextRender ==
    \/ ExportChordProLine
    \/ ExportVerseLine

(***************************************************************************)
(* Subtitle gating of extract(): the if/elif chain that puts a line into   *)
(* its category, with the two local flags.  A line is the set of the       *)
(* chain's tests it passes.                                                *)
(***************************************************************************)
\* lines of one document
MaxDocLines == 3

\* documents extracted one after the other by the same extractor
MaxDocs == 2

\* the tests of the chain a line can pass: _is_chord_line_text, _is_title_line,
\* _is_subtitle_line's text and size test, _is_capo_line, _is_kapodaster_line,
\* _is_comment_line, config.is_role_line, and a role marker within the text
LineProfiles ==
    { {"chord"}, {"title"}, {"title", "role_marker"}, {"subtitle"}, {"subtitle", "role_line"},
      {"capo"}, {"kapodaster"}, {"comment", "role_marker"}, {"role_line"}, {"role_marker"}, {} }

\* line 168: subtitle_detection_active and not found_first_role
SubtitleGate_ActiveOnly(subtitle_detection_active, found_first_role) == subtitle_detection_active
SubtitleGate(subtitle_detection_active, found_first_role) ==
    subtitle_detection_active /\ ~found_first_role

\* _is_subtitle_line returns False unless the language is Italian (lines 598, 629)
IsSubtitleLine(line, language_code) == language_code = "it" /\ "subtitle" \in line

\* the branch of the chain of lines 152-222 a line takes
LineBranch(line, language_code, subtitle_detection_active, found_first_role) ==
    IF "chord" \in line THEN "chord"
    ELSE IF "title" \in line THEN "title"
    ELSE IF SubtitleGate(subtitle_detection_active, found_first_role)
            /\ IsSubtitleLine(line, language_code) THEN "subtitle"
    ELSE IF "capo" \in line THEN "capo"
    ELSE IF "kapodaster" \in line THEN "kapodaster"
    ELSE IF "comment" \in line THEN "comment"
    ELSE IF language_code = "it" /\ "role_line" \in line THEN "role_line"
    ELSE IF "role_marker" \in line THEN "text_with_role"
    ELSE "text"

\* the branches that see a role marker (lines 190-200 and 207-212)
RoleBranches == {"role_line", "text_with_role"}

GateIdle ==
    /\ x_language_code = ""
    /\ x_doc = 0
    /\ x_lines = <<>>
    /\ x_subtitle_detection_active = FALSE
    /\ x_found_first_role = FALSE
    /\ x_branches = <<>>
    /\ x_pc = "idle"

\* an extractor of one language, before its first document; the flags are locals
\* of extract() and hold nothing yet
InitGate ==
    /\ x_language_code \in {"it", "hr"}
    /\ x_doc = 0
    /\ x_lines = <<>>
    /\ x_subtitle_detection_active \in BOOLEAN
    /\ x_found_first_role \in BOOLEAN
    /\ x_branches = <<>>
    /\ x_pc = "returned"

\* extract(), lines 66-82: a document is opened, the lists are empty,
\* subtitle_detection_active = False, found_first_role = False
BeginExtract ==
    /\ x_pc = "returned"
    /\ x_doc < MaxDocs
    /\ x_doc' = x_doc + 1
    /\ x_lines' = <<>>
    /\ x_subtitle_detection_active' = FALSE
    /\ x_found_first_role' = FALSE
    /\ x_branches' = <<>>
    /\ x_pc' = "lines"
    /\ UNCHANGED x_language_code
    /\ UNCHANGED nonGateVars

\* lines 91-222: the next non-blank line of the document through the chain
ClassifyLine ==
    /\ x_pc = "lines"
    /\ Len(x_lines) < MaxDocLines
    /\ \E line \in LineProfiles :
        LET branch == LineBranch(line, x_language_code,
                                 x_subtitle_detection_active, x_found_first_role)
        IN /\ x_lines' = Append(x_lines, line)
           /\ x_branches' = Append(x_branches, branch)
           /\ x_subtitle_detection_active' =
                 IF branch = "title" THEN TRUE
                 ELSE IF branch \in RoleBranches /\ ~x_found_first_role THEN FALSE
                 ELSE x_subtitle_detection_active
           /\ x_found_first_role' = (x_found_first_role \/ branch \in RoleBranches)
    /\ UNCHANGED << x_language_code, x_doc, x_pc >>
    /\ UNCHANGED nonGateVars

\* lines 234-255: the document has no further line and the lists are returned
ReturnSpanData ==
    /\ x_pc = "lines"
    /\ x_lines # <<>>
    /\ x_pc' = "returned"
    /\ UNCHANGED << x_language_code, x_doc, x_lines, x_subtitle_detection_active,
                    x_found_first_role, x_branches >>
    /\ UNCHANGED nonGateVars

NextGate ==
    \/ BeginExtract
    \/ ClassifyLine
    \/ ReturnSpanData

vars == << verseVars, groupVars, posVars, attachVars, customVars, classVars, hookVars, sharedVars, batchVars, chordVars, spanishVars, runsVars, renderVars, gateVars >>

ChordTexts == { <<"C">>, <<"G">> }

SpanishTexts == { <<"S", ".">>, <<"A", "v", "e">>, <<"x">> }

\* chord baselines: every sub-pixel position within two pixels
ChordYs == 0..(2 * Px - 1)

\* text baselines: 0, 4 and 8 pixels
TextYs == { 0, 4 * Px, 8 * Px }

\* x of the k-th of n extracted runs, left-to-right or right-to-left
RunX(k, n, order) == IF order = "ltr" THEN (k - 1) * RunPitch ELSE (n - k) * RunPitch

RunsOver(texts, ys) ==
    UNION { { [k \in 1..n |-> LineData(f[k][1], RunX(k, n, order), RunWidth, f[k][2], <<k>>)] :
                f \in [1..n -> texts \X ys], order \in {"ltr", "rtl"} } : n \in 0..MaxRuns }

VerseIdle ==
    /\ text_lines = <<>>
    /\ customization = "none"
    /\ text_lines_sorted = <<>>
    /\ i = 1
    /\ verses = <<>>
    /\ current_verse_lines = <<>>
    /\ current_role = <<>>
    /\ processed_indices = {}
    /\ pc = "idle"
    /\ current_marker = 0
    /\ role_transitions = 0
    /\ comment_emissions = 0

GroupIdle ==
    /\ g_chord_lines = <<>>
    /\ g_text_lines = <<>>
    /\ g_chord_passes = 0
    /\ g_text_passes = 0

InitGroup ==
    /\ GateIdle
    /\ RenderIdle
    /\ RunsIdle
    /\ SpanishIdle
    /\ ChordIdle
    /\ BatchIdle
    /\ SharedIdle
    /\ HookIdle
    /\ VerseIdle
    /\ PosIdle
    /\ AttachIdle
    /\ CustomIdle
    /\ ClassIdle
    /\ \/ g_chord_lines \in RunsOver(ChordTexts, ChordYs) /\ g_text_lines = <<>>
       \/ g_text_lines \in RunsOver(SpanishTexts, TextYs) /\ g_chord_lines = <<>>
    /\ g_chord_passes = 0
    /\ g_text_passes = 0

\* extract(), line 237
CombineChordLines ==
    /\ g_chord_passes < MaxPasses
    /\ g_chord_lines' = CombineChordLinesByYPosition(g_chord_lines)
    /\ g_chord_passes' = g_chord_passes + 1
    /\ UNCHANGED << g_text_lines, g_text_passes >>
    /\ UNCHANGED nonGroupVars

\* extract(), lines 243-244
CombineSpanishTextLines ==
    /\ g_text_passes < MaxPasses
    /\ g_text_lines' = CombineSpanishChordSpacedLines(g_text_lines)
    /\ g_text_passes' = g_text_passes + 1
    /\ UNCHANGED << g_chord_lines, g_chord_passes >>
    /\ UNCHANGED nonGroupVars

Init ==
    InitVerse /\ GroupIdle /\ PosIdle /\ AttachIdle /\ CustomIdle /\ ClassIdle /\ HookIdle /\ SharedIdle /\ BatchIdle /\ ChordIdle /\ SpanishIdle /\ RunsIdle /\ RenderIdle /\ GateIdle

Next ==
    \/ SortTextLines
    \/ SkipLine
    \/ RoleMarkerSameLine
    \/ RoleMarkerSeparateLine
    \/ InlineComment
    \/ AsteriskComment
    \/ ContinuationLine
    \/ UnassignedLine
    \/ FinalVerse

Spec == Init /\ [][Next]_vars

NextGroup ==
    \/ CombineChordLines
    \/ CombineSpanishTextLines

SpecGroup == InitGroup /\ [][NextGroup]_vars

NextPos ==
    \/ MapChords
    \/ CalculateChordPositions

StartPos ==
    VerseIdle /\ GroupIdle /\ AttachIdle /\ CustomIdle /\ ClassIdle /\ HookIdle /\ SharedIdle /\ BatchIdle /\ ChordIdle /\ SpanishIdle /\ RunsIdle /\ RenderIdle /\ GateIdle /\ InitPos

SpecPos == StartPos /\ [][NextPos]_vars

NextAttach == AppendVerseLine

StartAttach ==
    VerseIdle /\ GroupIdle /\ PosIdle /\ CustomIdle /\ ClassIdle /\ HookIdle /\ SharedIdle /\ BatchIdle /\ ChordIdle /\ SpanishIdle /\ RunsIdle /\ RenderIdle /\ GateIdle /\ InitAttach

SpecAttach == StartAttach /\ [][NextAttach]_vars

NextCustom == ApplyCustomizations

StartCustom ==
    VerseIdle /\ GroupIdle /\ PosIdle /\ AttachIdle /\ ClassIdle /\ HookIdle /\ SharedIdle /\ BatchIdle /\ ChordIdle /\ SpanishIdle /\ RunsIdle /\ RenderIdle /\ GateIdle /\ InitCustom

SpecCustom == StartCustom /\ [][NextCustom]_vars

NextClass ==
    \/ ExtractTextElements
    \/ SortElements
    \/ ClassifyNext
    \/ PostProcessClassifications

StartClass ==
    VerseIdle /\ GroupIdle /\ PosIdle /\ AttachIdle /\ CustomIdle /\ HookIdle /\ SharedIdle /\ BatchIdle /\ ChordIdle /\ SpanishIdle /\ RunsIdle /\ RenderIdle /\ GateIdle /\ InitClass

SpecClass == StartClass /\ [][NextClass]_vars

StartHook ==
    VerseIdle /\ GroupIdle /\ PosIdle /\ AttachIdle /\ CustomIdle /\ ClassIdle /\ SharedIdle /\ BatchIdle /\ ChordIdle /\ SpanishIdle /\ RunsIdle /\ RenderIdle /\ GateIdle /\ InitHook

SpecHook == StartHook /\ [][NextHook]_vars

StartShared ==
    VerseIdle /\ GroupIdle /\ PosIdle /\ AttachIdle /\ CustomIdle /\ ClassIdle /\ HookIdle /\ BatchIdle /\ ChordIdle /\ SpanishIdle /\ RunsIdle /\ RenderIdle /\ GateIdle /\ InitShared

SpecShared == StartShared /\ [][NextShared]_vars

StartBatch ==
    VerseIdle /\ GroupIdle /\ PosIdle /\ AttachIdle /\ CustomIdle /\ ClassIdle /\ HookIdle /\ SharedIdle /\ ChordIdle /\ SpanishIdle /\ RunsIdle /\ RenderIdle /\ GateIdle /\ InitBatch

SpecBatch == StartBatch /\ [][NextBatch]_vars

StartChord ==
    VerseIdle /\ GroupIdle /\ PosIdle /\ AttachIdle /\ CustomIdle /\ ClassIdle /\ HookIdle /\ SharedIdle /\ BatchIdle /\ SpanishIdle /\ RunsIdle /\ RenderIdle /\ GateIdle /\ InitChord

SpecChord == StartChord /\ [][NextChord]_vars

StartSpanish ==
    VerseIdle /\ GroupIdle /\ PosIdle /\ AttachIdle /\ CustomIdle /\ ClassIdle /\ HookIdle /\ SharedIdle /\ BatchIdle /\ ChordIdle /\ RunsIdle /\ RenderIdle /\ GateIdle /\ InitSpanish

SpecSpanish == StartSpanish /\ [][NextSpanish]_vars

StartRuns ==
    VerseIdle /\ GroupIdle /\ PosIdle /\ AttachIdle /\ CustomIdle /\ ClassIdle /\ HookIdle /\ SharedIdle /\ BatchIdle /\ ChordIdle /\ SpanishIdle /\ RenderIdle /\ GateIdle /\ InitRuns

SpecRuns == StartRuns /\ [][NextRuns]_vars

StartRender ==
    VerseIdle /\ GroupIdle /\ PosIdle /\ AttachIdle /\ CustomIdle /\ ClassIdle /\ HookIdle /\ SharedIdle /\ BatchIdle /\ ChordIdle /\ SpanishIdle /\ RunsIdle /\ GateIdle /\ InitRender

SpecRender == StartRender /\ [][NextRender]_vars

StartGate == VerseIdle /\ GroupIdle /\ PosIdle /\ AttachIdle /\ CustomIdle /\ ClassIdle /\ HookIdle /\ SharedIdle /\ BatchIdle /\ ChordIdle /\ SpanishIdle /\ RunsIdle /\ RenderIdle /\ InitGate

SpecGate == StartGate /\ [][NextGate]_vars

(***************************************************************************)
(* Verse loop: vocabulary of the properties                                *)
(***************************************************************************)
Done == pc = "done"

NLines == Len(text_lines_sorted)

LineText(k) == text_lines_sorted[k].text

IsMarkerLine(k) == ExtractRoleMarker(LineText(k)) # <<>>

\* what follows the marker on a marker line
TrailingText(k) ==
    Strip(DropFirst(Strip(LineText(k)), Len(ExtractRoleMarker(LineText(k)))))

\* every (verse, line) position of the emitted list
VersePositions == { p \in (1..Len(verses)) \X (1..MaxLines + 1) : p[2] <= Len(verses[p[1]].lines) }

PosLine(p) == verses[p[1]].lines[p[2]]

\* source lines taken up by comment verses
CommentSrc ==
    UNION { PosLine(p).src : p \in { q \in VersePositions : verses[q[1]].verse_type = "comment" } }

\* a lyric line: a plain text line with text besides ditto marks that no
\* footnote comment absorbed, or a marker line that carries text after the
\* marker
IsLyricLine(k) ==
    /\ Strip(LineText(k)) # <<>>
    /\ IF IsMarkerLine(k) THEN TrailingText(k) # <<>>
       ELSE /\ CleanText(LineText(k)) # <<>>
            /\ ~IsInlineComment(LineText(k))
            /\ ~IsAsteriskMarker(LineText(k))
            /\ k \notin CommentSrc

\* the positions of verse-kind verses that hold source line k
VerseHolders(k) ==
    { p \in VersePositions : verses[p[1]].verse_type = "verse" /\ k \in PosLine(p).src }

\* the nearest marker line at or above line k (0: none)
MarkerOf(k) ==
    LET ms == { m \in 1..k : IsMarkerLine(m) }
    IN  IF ms = {} THEN 0 ELSE CHOOSE m \in ms : \A q \in ms : q <= m

\* the marker lines that own at least one emitted verse line
OwningMarkers ==
    { MarkerOf(MinOf(PosLine(p).src)) :
        p \in { q \in VersePositions : verses[q[1]].verse_type = "verse" } }

\* a non-stuttering step of the loop that handles a marker line
RoleStep ==
    /\ Active
    /\ IsMarkerLine(i)
    /\ i' = i + 1

\* a step that handles an inline comment or a footnote marker
CommentStep ==
    /\ Active
    /\ ~IsMarkerLine(i)
    /\ IsInlineComment(CurText) \/ IsAsteriskMarker(CurText)
    /\ i' = i + 1

(***************************************************************************)
(* C1 - C9                                                                 *)
(***************************************************************************)

\* C1: when the builder has returned, every lyric line (plain lyric line, or
\* lyric text following a role marker) is held by exactly one VerseLine of
\* exactly one emitted Verse.
C1_EveryLyricLineOnce ==
    Done => \A k \in 1..NLines : IsLyricLine(k) => Cardinality(VerseHolders(k)) = 1

LastVerse == verses[Len(verses)]

C4_TrailingTextIsFirstLine ==
    (pc = "loop" /\ current_marker > 0 /\ current_marker = i - 1
        /\ TrailingText(current_marker) # <<>>) =>
            /\ current_verse_lines # <<>>
            /\ current_verse_lines[1].src = {current_marker}
            /\ current_verse_lines[1].text = TrailingText(current_marker)

\* C5: a comment step closes the open verse if there is one, emits one
\* comment-kind Verse and leaves the role unchanged.
C5_CommentKeepsRole ==
    [][ CommentStep =>
            /\ verses' # <<>>
            /\ verses'[Len(verses')].verse_type = "comment"
            /\ Len(verses') = Len(verses) + (IF current_verse_lines # <<>> THEN 2 ELSE 1)
            /\ current_role' = current_role ]_vars

\* C6: when the builder has returned, every lyric line above the first role
\* marker is a VerseLine of an anonymous (empty-role) verse.
C6_AnonymousVerseKeepsLines ==
    Done => \A k \in 1..NLines :
                (IsLyricLine(k) /\ MarkerOf(k) = 0) =>
                    \E p \in VerseHolders(k) : verses[p[1]].role = <<>>

RoleK == <<"K", ".">>
RoleZ == <<"Z", ".">>

C9_VerseLinesContiguous ==
    \A v \in 1..Len(verses) :
        \A a \in 1..(Len(verses[v].lines) - 1) :
            LET lo == MaxOf(verses[v].lines[a].src)
                hi == MinOf(verses[v].lines[a + 1].src)
            IN  /\ lo < hi
                /\ text_lines_sorted[lo].y <= text_lines_sorted[hi].y
                /\ \A k \in (lo + 1)..(hi - 1) :
                      /\ ~IsMarkerLine(k)
                      /\ \A p \in VersePositions : k \notin PosLine(p).src

\* a verse has been emitted that skips a source line between two of its lines
C9_Witness ==
    \E v \in 1..Len(verses) :
        /\ Len(verses[v].lines) >= 2
        /\ \E a \in 1..(Len(verses[v].lines) - 1) :
              MinOf(verses[v].lines[a + 1].src) > MaxOf(verses[v].lines[a].src) + 1


(***************************************************************************)
(* C10                                                                     *)
(***************************************************************************)

\* C10: grouping is idempotent: a combining pass over the output of a
\* combining pass (chord lines, 1 px window; Spanish text lines, 5 px window)
\* returns that output unchanged.
C10_GroupingIdempotent ==
    [][ /\ (g_chord_passes >= 1 /\ g_chord_passes' = g_chord_passes + 1) =>
            g_chord_lines' = g_chord_lines
        /\ (g_text_passes >= 1 /\ g_text_passes' = g_text_passes + 1) =>
            g_text_lines' = g_text_lines ]_vars

\* the chord-line half of C10
ChordGroupingIdempotent ==
    [][ (g_chord_passes >= 1 /\ g_chord_passes' = g_chord_passes + 1) =>
            g_chord_lines' = g_chord_lines ]_vars

(***************************************************************************)
(* Chord positioning: vocabulary of the properties                         *)
(***************************************************************************)
Positioned == p_pc \in {"mapped", "calculated"}

\* sum of the character widths of text[1..k]
RECURSIVE WidthUpTo(_, _, _)
WidthUpTo(text, k, font_size) ==
    IF k = 0 THEN 0 ELSE WidthUpTo(text, k - 1, font_size) + GetCharWidth(text[k], font_size)

\* visual center of the k-th character (1-based) of the lyric line, from the span start
CharCenter(k) ==
    ToUnits(p_verse_span_start) + WidthUpTo(p_verse_text, k - 1, p_font_size)
        + GetCharWidth(p_verse_text[k], p_font_size) \div 2

\* the clamped target pixel of token t
ClampedTarget(t) ==
    ToUnits(ClampToSpan(p_chord_x[t], p_verse_span_start, p_verse_span_width))

\* 0-based index of the first character whose center is at or past the target of token t
FirstAtOrPast(t) ==
    LET at_or_past == { k \in 1..Len(p_verse_text) : CharCenter(k) >= ClampedTarget(t) }
    IN  IF at_or_past = {} THEN Len(p_verse_text) ELSE MinOf(at_or_past) - 1

C12_IndexIsFirstCenterAtOrPast ==
    p_pc = "mapped" =>
        \A t \in 1..Len(p_chord_x) :
            /\ p_result[t].position \in 0..Len(p_verse_text)
            /\ p_result[t].position = FirstAtOrPast(t)

\* a token left of the span and a token right of it, mapped into a span whose
\* characters end before its right edge
C12_Witness ==
    /\ p_pc = "mapped"
    /\ p_chord_x[1] < p_verse_span_start
    /\ p_chord_x[2] > p_verse_span_start + p_verse_span_width
    /\ p_verse_span_width > 0
    /\ p_result[1].position = 0
    /\ p_result[2].position = Len(p_verse_text)

(***************************************************************************)
(* Chord attachment: vocabulary of the properties                          *)
(***************************************************************************)
\* chord line c lies strictly above baseline y, within the maximum gap
Qualifies(c, y) == a_chord_lines[c].y < y /\ y - a_chord_lines[c].y <= MaxChordGapPx

\* the chord lines some chord of VerseLine l was read from
SourceLines(l) == { a_verse_lines[l].chords[t].line : t \in 1..Len(a_verse_lines[l].chords) }

C14_ChordsOnNearestLineOnly ==
    \A l \in 1..Len(a_verse_lines) :
        \A c \in SourceLines(l) :
            ~\E t \in 1..Len(a_text_lines) :
                /\ a_chord_lines[c].y < a_text_lines[t].y
                /\ a_text_lines[t].y < a_verse_lines[l].y

(***************************************************************************)
(* Language customizations: vocabulary of the properties                   *)
(***************************************************************************)
SortedByOffset(chords) == \A t \in 1..(Len(chords) - 1) : chords[t].position <= chords[t + 1].position

\* C15: in every VerseLine of the Song that parse returns, the chords are sorted by
\* character offset (ties allowed), also after the language customizations have
\* added, moved or repositioned chords.
C15_ChordsSortedByOffset ==
    it_pc = "customized" =>
        \A v \in 1..Len(it_customized) :
            \A l \in 1..Len(it_customized[v].lines) :
                SortedByOffset(it_customized[v].lines[l].chords)

(***************************************************************************)
(* Text classifier: vocabulary of the properties                           *)
(***************************************************************************)
RuleIndexes == 1..Len(classification_rules)

\* the confidence every rule gives the element
RuleConfidences(element) ==
    [r \in RuleIndexes |-> CalculateRuleConfidence(element, classification_rules[r])]

HighestConfidence(element) == MaxOf({ RuleConfidences(element)[r] : r \in RuleIndexes })

\* the rules that reach the highest confidence
HighestRules(element) ==
    { r \in RuleIndexes : RuleConfidences(element)[r] = HighestConfidence(element) }

\* the classifications made so far, each with the element it was made for
ClassifiedSoFar == 1..Len(k_classified)

\* the first whitespace-separated token of a text
FirstToken(text) ==
    LET t == Strip(text) IN
    IF \E k \in 1..Len(t) : t[k] \in Whitespace
    THEN SubSeq(t, 1, MinOf({ k \in 1..Len(t) : t[k] \in Whitespace }) - 1)
    ELSE t

BlankSpans == { k \in 1..Len(k_spans) : Strip(k_spans[k].text) = <<>> }

\* C16: every confidence the classifier produces lies in [0, 1]: the confidence of
\* every classified element, the rule confidence kept in its metadata, and the
\* confidences of the returned document, whatever rules matched and whatever
\* adjustments were added.
C16_ConfidenceInUnitInterval ==
    /\ \A n \in ClassifiedSoFar :
          /\ 0 <= k_classified[n].confidence /\ k_classified[n].confidence <= 10
          /\ \A c \in 1..Len(k_classified[n].metadata) :
                0 <= k_classified[n].metadata[c] /\ k_classified[n].metadata[c] <= 10
    /\ \A d \in 1..Len(k_document) :
          \A n \in 1..Len(k_document[d].text_elements) :
              /\ 0 <= k_document[d].text_elements[n].confidence
              /\ k_document[d].text_elements[n].confidence <= 10

\* a title above the title line whose rule confidence is already 1.0: the position
\* bonus is added and the result is still 1.0
C16_Witness ==
    /\ k_pc = "classified"
    /\ \E n \in ClassifiedSoFar :
          /\ k_classified[n].text_type = "title"
          /\ k_classified[n].element.y < title_position_threshold
          /\ k_classified[n].metadata = << 10 >>
          /\ k_classified[n].confidence = 10

\* C17: for a non-empty run the type of the highest-confidence rule wins when that
\* confidence is at least 0.3, and the run is VerseText with confidence 0.5 when no
\* rule reaches 0.3; the winning rule's type is also the type in the returned document.
C17_HighestConfidenceWins ==
    /\ k_pc = "classifying" =>
          \A n \in ClassifiedSoFar :
              LET element == k_sorted[n]
                  highest == HighestConfidence(element)
              IN  IF highest >= MinRuleConfidence
                  THEN /\ \E r \in HighestRules(element) :
                             k_classified[n].text_type = classification_rules[r].text_type
                       /\ k_classified[n].metadata = << highest >>
                  ELSE /\ k_classified[n].text_type = "verse_text"
                       /\ k_classified[n].confidence = DefaultConfidence
    /\ k_pc = "classified" =>
          \A n \in ClassifiedSoFar :
              HighestConfidence(k_classified[n].element) >= MinRuleConfidence =>
                  \E r \in HighestRules(k_classified[n].element) :
                      k_classified[n].text_type = classification_rules[r].text_type

\* two rules match the element with different confidences and the later, stronger
\* one gave the type
C17_Witness ==
    /\ k_pc = "classifying"
    /\ \E n \in ClassifiedSoFar :
          \E r \in RuleIndexes, q \in RuleIndexes :
              /\ r < q
              /\ RuleConfidences(k_sorted[n])[r] >= MinRuleConfidence
              /\ RuleConfidences(k_sorted[n])[r] < RuleConfidences(k_sorted[n])[q]
              /\ HighestRules(k_sorted[n]) = { q }
              /\ k_classified[n].text_type = classification_rules[q].text_type

\* C18: when several rules reach the same highest confidence, the rule declared
\* first (Title, RoleMarker, Kapodaster, InlineComment, ChordLine) gives the type.
C18_EarlierRuleWinsTies ==
    k_pc = "classifying" =>
        \A n \in ClassifiedSoFar :
            HighestConfidence(k_sorted[n]) >= MinRuleConfidence =>
                k_classified[n].text_type =
                    classification_rules[MinOf(HighestRules(k_sorted[n]))].text_type

\* two rules tie below 1.0 and the earlier one gave the type
C18_Witness ==
    /\ k_pc = "classifying"
    /\ \E n \in ClassifiedSoFar :
          /\ Cardinality(HighestRules(k_sorted[n])) >= 2
          /\ HighestConfidence(k_sorted[n]) < 10
          /\ k_classified[n].text_type =
                 classification_rules[MinOf(HighestRules(k_sorted[n]))].text_type

\* C19: the post-pass turns a VerseText line into a RoleMarker exactly when its
\* first token is a role-marker token (a text that only begins with the characters
\* of a marker inside a longer token stays VerseText), and leaves lines of every
\* other type as they were.
C19_RoleReclassOnTokenMatch ==
    [][PostProcessClassifications =>
          \A n \in ClassifiedSoFar :
              LET before == k_classified[n]
                  after == k_classified'[n]
              IN  /\ after.element = before.element
                  /\ before.text_type # "verse_text" => after = before
                  /\ before.text_type = "verse_text" =>
                        (after.text_type = "role_marker"
                            <=> FirstToken(before.element.text) \in RoleSet)]_vars

\* C20: a span whose text is empty after trimming never becomes an element, never
\* reaches the classifier and has no classified line: every element and every
\* classified line has text, none is of the unknown type, and the returned document
\* has one line per span with text.
C20_BlankRunsNeverClassified ==
    /\ \A n \in 1..Len(k_elements) : Strip(k_elements[n].text) # <<>>
    /\ \A n \in 1..Len(k_sorted) : Strip(k_sorted[n].text) # <<>>
    /\ \A n \in ClassifiedSoFar :
          /\ Strip(k_classified[n].element.text) # <<>>
          /\ k_classified[n].text_type # "unknown"
    /\ k_pc \in { "extracted", "classifying", "classified" } =>
          Len(k_elements) = Len(k_spans) - Cardinality(BlankSpans)
    /\ k_pc = "classified" =>
          /\ Len(k_classified) = Len(k_spans) - Cardinality(BlankSpans)
          /\ k_document[1].text_elements = k_classified

\* the page had a blank span and the classifier has returned
C20_Witness ==
    /\ k_pc = "classified"
    /\ BlankSpans # {}
    /\ Len(k_document[1].text_elements) < Len(k_spans)

(***************************************************************************)
(* Verse loop: the shape of the returned list                              *)
(***************************************************************************)
IsPrefix(s, t) == Len(s) <= Len(t) /\ SubSeq(t, 1, Len(s)) = s

\* C30: in the list of the verse builder every comment-kind Verse has an empty role,
\* exactly one line and no chords, every verse-kind Verse has a non-empty role and at
\* least one line, and the list only grows at its end: verses stand in the order in
\* which they were closed.
C30_VerseShapesAndOrder ==
    /\ [](\A v \in 1..Len(verses) :
            /\ verses[v].verse_type \in { "comment", "verse" }
            /\ verses[v].verse_type = "comment" =>
                  /\ verses[v].role = <<>>
                  /\ Len(verses[v].lines) = 1
                  /\ verses[v].lines[1].chords = <<>>
            /\ verses[v].verse_type = "verse" =>
                  /\ verses[v].role # <<>>
                  /\ Len(verses[v].lines) >= 1)
    /\ [][IsPrefix(verses, verses')]_vars

\* the returned list holds a verse with chorded lines, then a comment, then a verse
C30_Witness ==
    /\ pc = "done"
    /\ \E a \in 1..Len(verses), b \in 1..Len(verses), c \in 1..Len(verses) :
          /\ a < b /\ b < c
          /\ verses[a].verse_type = "verse" /\ verses[a].lines[1].chords # <<>>
          /\ verses[b].verse_type = "comment"
          /\ verses[c].verse_type = "verse"

(***************************************************************************)
(* File-specific overrides: vocabulary of the properties                   *)
(***************************************************************************)
\* the registered overrides whose test accepts the file name
MatchingOverrides ==
    { k \in 1..Len(h_customizations) : AppliesToFile(h_customizations[k], h_filename) }

\* where an entry stands in the trace (0: nowhere); used for entries that occur once
TracePosition(what) ==
    IF \E k \in 1..Len(h_trace) : h_trace[k] = what
    THEN MinOf({ k \in 1..Len(h_trace) : h_trace[k] = what })
    ELSE 0

RewriteEntries == { "customize_span_data", "customize_text_lines", "customize_verse_text", "customize_song" }

\* C21: the lookup returns the earliest-registered override whose applies-to-file test
\* accepts the file name, and none when no registered override accepts it.
C21_FirstMatchingOverride ==
    h_pc \notin { "idle", "import" } =>
        IF MatchingOverrides = {} THEN h_customization = "none"
        ELSE h_customization = h_customizations[MinOf(MatchingOverrides)]

\* two different registered overrides accept the file name and the first was returned
C21_Witness ==
    /\ h_pc = "returned"
    /\ \E a \in MatchingOverrides, b \in MatchingOverrides :
          /\ a < b
          /\ h_customizations[a] # h_customizations[b]
          /\ a = MinOf(MatchingOverrides)
          /\ h_customization = h_customizations[a]

\* C22: with a matching override the raw-line rewrite runs before the lines are
\* classified, the verse-text rewrite runs before the verses are complete, and the Song
\* rewrite runs after the Song is assembled as the last step; with no matching
\* override none of the rewrites runs.
C22_HookPointsInOrder ==
    h_pc = "returned" =>
        IF h_customization = "none"
        THEN \A k \in 1..Len(h_trace) : h_trace[k] \notin RewriteEntries
        ELSE /\ TracePosition("customize_span_data") > 0
             /\ TracePosition("customize_text_lines") > 0
             /\ TracePosition("customize_span_data") < TracePosition("lines_classified")
             /\ TracePosition("customize_text_lines") < TracePosition("lines_classified")
             /\ \A k \in 1..Len(h_trace) :
                   h_trace[k] = "customize_verse_text" =>
                       /\ TracePosition("customize_text_lines") < k
                       /\ k < TracePosition("song_assembled")
             /\ h_trace[Len(h_trace)] = "customize_song"
             /\ TracePosition("song_assembled") < Len(h_trace)


\* C23: when two workers share the parser, every finished worker's Song is the
\* Song its document gives when it is processed alone, under every interleaving
C23_ConcurrentEqualsAlone ==
    \A w \in Workers :
        sh_pc # <<>> /\ sh_pc[w] = "done"
            => sh_song[w] = CustomizeVerse(sh_verse[w], sh_filename[w])


C26_ChordChainIsOneToken ==
    (es_pc = "tokenized" /\ es_language_code = "es" /\ Contains(es_chord_span_text, <<"|">>))
        => /\ Len(es_chord_positions) = 1
           /\ es_chord_positions[1].chord = Strip(es_chord_span_text)
           /\ es_chord_positions[1].pixel_x = es_chord_span_start

C26_Witness ==
    /\ es_pc = "tokenized"
    /\ es_language_code = "es"
    /\ es_chord_span_text = <<"D", "o", " ", "|", "M", "i", " ", "|", "D", "o">>
    /\ es_chord_span_width > 0
    /\ Len(es_chord_positions) = 1


\* C27: once the runs are extracted, and again after the raw-line rewrites, every
\* extracted run is held by exactly one line of the category lists
C27_EveryRunInExactlyOneLine ==
    r_pc \in {"extracted", "rewritten"} =>
        \A run \in 1..Len(r_runs) :
            Cardinality({ k \in 1..Len(r_text_lines) : run \in r_text_lines[k].runs })
              + Cardinality({ k \in 1..Len(r_comment_lines) : run \in r_comment_lines[k].runs }) = 1


\* the chord names between brackets of a rendered line, in order
RECURSIVE BracketContents(_, _, _)
BracketContents(s, in_chord, name) ==
    IF s = <<>> THEN <<>>
    ELSE IF Head(s) = "[" THEN BracketContents(Tail(s), TRUE, <<>>)
    ELSE IF Head(s) = "]" THEN << name >> \o BracketContents(Tail(s), FALSE, <<>>)
    ELSE IF in_chord THEN BracketContents(Tail(s), TRUE, Append(name, Head(s)))
    ELSE BracketContents(Tail(s), FALSE, <<>>)

\* the rendered line without its bracketed chords
RECURSIVE DeleteBracketed(_, _)
DeleteBracketed(s, in_chord) ==
    IF s = <<>> THEN <<>>
    ELSE IF Head(s) = "[" THEN DeleteBracketed(Tail(s), TRUE)
    ELSE IF Head(s) = "]" THEN DeleteBracketed(Tail(s), FALSE)
    ELSE IF in_chord THEN DeleteBracketed(Tail(s), TRUE)
    ELSE << Head(s) >> \o DeleteBracketed(Tail(s), FALSE)

\* for each bracketed chord of a rendered line, the number of lyric characters before it
RECURSIVE BracketOffsets(_, _, _)
BracketOffsets(s, in_chord, seen) ==
    IF s = <<>> THEN <<>>
    ELSE IF Head(s) = "[" THEN << seen >> \o BracketOffsets(Tail(s), TRUE, seen)
    ELSE IF Head(s) = "]" THEN BracketOffsets(Tail(s), FALSE, seen)
    ELSE IF in_chord THEN BracketOffsets(Tail(s), TRUE, seen)
    ELSE BracketOffsets(Tail(s), FALSE, seen + 1)

\* a rendered line holds each chord of the line once, in offset order, around the
\* unchanged lyric, and the chords at or beyond the end of the text after all of it
RenderedWell(rendered, line) ==
    LET in_order == SortedByPosition(line.chords) IN
    /\ DeleteBracketed(rendered, FALSE) = line.text
    /\ BracketContents(rendered, FALSE, <<>>) = [k \in 1..Len(in_order) |-> in_order[k].chord]
    /\ \A k \in 1..Len(in_order) :
          in_order[k].position >= Len(line.text)
              => BracketOffsets(rendered, FALSE, 0)[k] = Len(line.text)

\* C28: the ChordPro text of a verse line with chords, from either renderer, holds
\* every chord exactly once in offset order, gives back the lyric when the bracketed
\* chords are deleted, and has the chords at or beyond the end after the whole text
C28_RenderKeepsLyricAndChords ==
    /\ ("parser" \in rn_pc /\ rn_line.chords # <<>>) => RenderedWell(rn_parser_text, rn_line)
    /\ ("exporter" \in rn_pc /\ rn_line.chords # <<>>) => RenderedWell(rn_exporter_text, rn_line)

C28_Witness ==
    /\ rn_pc = {"song", "parser", "exporter"}
    /\ rn_line.text = <<"a", " ", "b">>
    /\ Len(rn_line.chords) = 2
    /\ rn_line.chords[1].position = 4
    /\ rn_line.chords[2].position = 1
    /\ rn_parser_text = <<"a", "[", "C", "]", " ", "b", "[", "G", "7", "]">>
    /\ rn_exporter_text = rn_parser_text


\* C29: within one document a line is flagged as subtitle only when a title line
\* came before it and no role marker did, also when another title follows the first
\* role marker; and every document starts with both flags off
C29_SubtitleOnlyBetweenTitleAndFirstRole ==
    /\ \A k \in 1..Len(x_branches) :
          x_branches[k] = "subtitle"
              => /\ \E j \in 1..(k - 1) : x_branches[j] = "title"
                 /\ \A j \in 1..(k - 1) : x_branches[j] \notin RoleBranches
    /\ (x_pc = "lines" /\ x_lines = <<>>)
           => (~x_subtitle_detection_active /\ ~x_found_first_role)

C29_Witness ==
    /\ x_doc = 2
    /\ x_language_code = "it"
    /\ x_pc = "returned"
    /\ x_lines = << {"role_line"}, {"title"}, {"subtitle"} >>
    /\ x_branches = << "role_line", "title", "text" >>
    /\ x_subtitle_detection_active
    /\ x_found_first_role

====
